---- MODULE Spec2Model ----
(***************************************************************************)
(* Matchmaking coordinator of the chess mini-app (hooks/useMatchmaking.ts) *)
(* together with the part of the board it drives (hooks/useChessGame.ts    *)
(* through App.handleOpponentMove).                                        *)
(*                                                                         *)
(* Every browser session runs one instance of the hook.  The sessions      *)
(* share a localStorage queue and a BroadcastChannel.  A session keeps its *)
(* matchmaking state twice: the React state (`state`, the value of the     *)
(* last setState) and `stateRef`, the copy every callback reads, which an  *)
(* effect refreshes after the state is rendered.  Callbacks run from a     *)
(* user event are rendered and their effects flushed before the event      *)
(* returns; the channel's message callback is not, so after a message      *)
(* `stateRef` lags `state` until SyncStateRef runs.                        *)
(*                                                                         *)
(* Player labels only decorate the state and are left out.                 *)
(*                                                                         *)
(* The second part is one useChessGame hook on its own (`game`) and the    *)
(* third the bot's search, utils/chessAi.ts (`engine`).  chess.js is a     *)
(* dependency: the hook is checked on a fragment of chess in which only    *)
(* the two king's knights move, the search on bounded game trees.          *)
(***************************************************************************)
EXTENDS Integers, Sequences, FiniteSets, TLC

\* ---------------------------------------------------------------- bounds
MaxOps == 3          \* user operations and clock advances in one behaviour
MaxOpsThree == 4     \* the same where three sessions are open
MaxInbox == 2        \* undelivered messages per listener
MaxGen == 1          \* identifiers one session draws from generateId
MaxTicks == 2        \* clock advances
MaxPly == 1          \* half-moves on one board
MaxHistory == 8      \* half-moves in the game of one useChessGame hook
MaxEdges == 5        \* moves in the game tree one search is given
MaxAppPlies == 5     \* half-moves on the board of the App
MaxCaptures == 2     \* captures made on the board of the App
MaxMatchPlies == 2   \* half-moves on each board of a match of two Apps
TickMs == 30000      \* one clock advance, in milliseconds

\* ------------------------------------------------------ program constants
QUEUE_TTL_MS == 60000

Sessions == {1, 2, 3}
Null == 0
Sans == {"Nxd4"}

\* generateId: the n-th identifier session s draws; distinct from every
\* session id and from every other drawn identifier
generateId(s, n) == 10 * n + s

VARIABLES
    state,      \* React state of the hook: the last value given to setState
    stateRef,   \* stateRef.current: the state every callback reads
    storage,    \* localStorage[QUEUE_KEY]: the shared queue
    available,  \* availableMatches: the waiting players each session shows
    inbox,      \* messages posted on the channel and not yet delivered
    board,      \* the SAN history of each session's game
    now,        \* Date.now()
    gen,        \* how many identifiers each session has drawn
    ops,        \* user operations so far
    echoes,     \* whether the channel hands a sender its own messages
    mounted,    \* the sessions that have the page open
    game,       \* one useChessGame hook: chess.js object and React state
    engine,     \* one call of the search: its arguments, work and result
    app,        \* the App component of one session: its board hook and effects
    last        \* what the last step did (observation only)

vars == <<state, stateRef, storage, available, inbox, board, now, gen, ops, echoes, mounted,
          game, engine, app, last>>

\* ------------------------------------------------------------- messages
NoMsg == [type |-> "none", matchId |-> Null, guestId |-> Null, hostId |-> Null,
          senderId |-> Null, san |-> ""]

MatchJoin(m, g) == [NoMsg EXCEPT !.type = "match-join", !.matchId = m, !.guestId = g]

MatchConfirm(m, h, g) ==
    [NoMsg EXCEPT !.type = "match-confirm", !.matchId = m, !.hostId = h, !.guestId = g]

MatchCancel(m) == [NoMsg EXCEPT !.type = "match-cancel", !.matchId = m]

MoveMsg(m, san, sender) ==
    [NoMsg EXCEPT !.type = "move", !.matchId = m, !.san = san, !.senderId = sender]

\* ---------------------------------------------------------------- state
createInitialState ==
    [status |-> "idle", matchId |-> Null, playerColor |-> "white",
     opponentType |-> "bot", opponentId |-> Null, isHost |-> FALSE]

\* a bot match that tracks no match id
BotStateNoId(m) ==
    [status |-> "bot", matchId |-> Null, playerColor |-> "white",
     opponentType |-> "bot", opponentId |-> -1, isHost |-> TRUE]

BotState(m) ==
    [status |-> "bot", matchId |-> m, playerColor |-> "white",
     opponentType |-> "bot", opponentId |-> -1, isHost |-> TRUE]

\* a setMatched that seats everyone as white
MatchedStateWhite(m, color, opp, host) ==
    [status |-> "matched", matchId |-> m, playerColor |-> "white",
     opponentType |-> "human", opponentId |-> opp, isHost |-> host]

MatchedState(m, color, opp, host) ==
    [status |-> "matched", matchId |-> m, playerColor |-> color,
     opponentType |-> "human", opponentId |-> opp, isHost |-> host]

JoiningState(m, opp) ==
    [status |-> "joining", matchId |-> m, playerColor |-> "black",
     opponentType |-> "human", opponentId |-> opp, isHost |-> FALSE]

SearchingState(self) ==
    [status |-> "searching", matchId |-> self, playerColor |-> "white",
     opponentType |-> "human", opponentId |-> Null, isHost |-> TRUE]

InvitingState(m) ==
    [status |-> "inviting", matchId |-> m, playerColor |-> "white",
     opponentType |-> "human", opponentId |-> Null, isHost |-> TRUE]

\* ---------------------------------------------------------------- queue
\* a prune that still admits an entry whose age is exactly the TTL
pruneQueueAtMost(entries, t) ==
    SelectSeq(entries, LAMBDA e : t - e.createdAt <= QUEUE_TTL_MS)

pruneQueue(entries, t) ==
    SelectSeq(entries, LAMBDA e : t - e.createdAt < QUEUE_TTL_MS)

\* readQueue returns the pruned queue and stores it when it dropped entries,
\* so after a read the stored queue is the returned one
readQueue(q, t) == pruneQueue(q, t)

WithoutId(q, id) == SelectSeq(q, LAMBDA e : e.id # id)

\* clearQueueEntry(id): writeQueue(readQueue().filter(...))
clearQueueEntry(q, id, t) == WithoutId(readQueue(q, t), id)

\* the count syncAvailableMatches shows session self for the queue q it read
OthersCount(q, self) == Len(WithoutId(q, self))


\* ---------------------------------------------------------------- board
\* chess.js is a dependency, not part of the program: a game is its SAN
\* history, it is over after MaxPly half-moves, and until then every
\* notation of Sans names a legal move
isGameOver(b) == Len(b) >= MaxPly

LegalSans(b) == IF isGameOver(b) THEN {} ELSE Sans

\* useChessGame.applyMoveBySan, as App.handleOpponentMove calls it
applyMoveBySan(b, san) ==
    IF isGameOver(b) THEN b
    ELSE IF san \in LegalSans(b) THEN Append(b, san) ELSE b

turn(b) == IF Len(b) % 2 = 0 THEN "white" ELSE "black"

\* -------------------------------------------------------------- channel
Envelopes(sender, msgs) ==
    [i \in 1..Len(msgs) |-> [from |-> sender, msg |-> msgs[i]]]

\* who hears a postMessage: every other open session, and the sender when
\* the channel echoes
Hearers(sender) == IF echoes THEN mounted ELSE mounted \ {sender}

Fits(box, sender, msgs) ==
    \A r \in Hearers(sender) : Len(box[r]) + Len(msgs) <= MaxInbox

CanPost(sender, msgs) == Fits(inbox, sender, msgs)

Posted(box, sender, msgs) ==
    [r \in Sessions |->
        IF r \in Hearers(sender)
        THEN box[r] \o Envelopes(sender, msgs)
        ELSE box[r]]

RemoveAt(seq, i) == SubSeq(seq, 1, i - 1) \o SubSeq(seq, i + 1, Len(seq))

\* the channel keeps the order of one sender's messages
Deliverable(s, i) ==
    /\ i \in 1..Len(inbox[s])
    /\ \A j \in 1..(i - 1) : inbox[s][j].from # inbox[s][i].from

\* ----------------------------------------------------------- observation
Quiet == [op |-> "none", who |-> Null, from |-> Null, cur |-> createInitialState,
          prev |-> createInitialState, msg |-> NoMsg, sent |-> <<>>,
          preBoard |-> <<>>, preQueued |-> FALSE, read |-> FALSE]

Did(op, s, from, msg, sent) ==
    [op |-> op, who |-> s, from |-> from, cur |-> stateRef[s], prev |-> state[s],
     msg |-> msg, sent |-> sent, preBoard |-> board[s],
     preQueued |-> \E k \in 1..Len(storage) : storage[k].id = s,
     read |-> FALSE]

\* the same for a step that read the shared queue
DidRead(op, s, from, msg, sent, read) ==
    [Did(op, s, from, msg, sent) EXCEPT !.read = read]

\* ------------------------------------------------------ cancelMatchmaking
CancelClearsQueue(cur) ==
    cur.matchId # Null /\ cur.status = "searching" /\ cur.isHost

\* a list of statuses that forgets the guest's pending join
CancelStatusesNoJoining == {"inviting", "searching", "matched"}

CancelStatuses == {"inviting", "joining", "searching", "matched"}

CancelBroadcasts(cur) ==
    cur.matchId # Null /\ cur.status \in CancelStatuses

\* a cancel that leaves the host's entry in the queue
CancelStorageKept(cur, q, t) == q

\* the queue cancelMatchmaking leaves
CancelStorage(cur, q, t) ==
    IF CancelClearsQueue(cur) THEN clearQueueEntry(q, cur.matchId, t) ELSE q

\* the count cancelMatchmaking leaves: it syncs only after clearing its entry
CancelAvailable(cur, q, t, self, shown) ==
    IF CancelClearsQueue(cur) THEN OthersCount(CancelStorage(cur, q, t), self) ELSE shown

\* what cancelMatchmaking posts
CancelSent(cur) ==
    IF CancelBroadcasts(cur) THEN <<MatchCancel(cur.matchId)>> ELSE <<>>

UserOp == ops < (IF mounted = Sessions THEN MaxOpsThree ELSE MaxOps)

cancelMatchmaking(s) ==
    /\ UserOp
    /\ LET cur == stateRef[s]
            sent == CancelSent(cur)
        IN  /\ CanPost(s, sent)
            /\ inbox' = Posted(inbox, s, sent)
            /\ storage' = CancelStorage(cur, storage, now)
            /\ available' = [available EXCEPT
                    ![s] = CancelAvailable(cur, storage, now, s, @)]
            /\ state' = [state EXCEPT ![s] = createInitialState]
            /\ stateRef' = [stateRef EXCEPT ![s] = createInitialState]
            /\ last' = DidRead("cancelMatchmaking", s, Null, NoMsg, sent,
                                CancelClearsQueue(cur))
    /\ ops' = ops + 1
    /\ UNCHANGED <<board, now, gen, echoes, mounted, game, engine>>

\* ---------------------------------------------------------- startBotMatch
\* a bot start that cancels an active match only, not a pending one
BotCancelsWhenMatched(cur) == cur.status = "matched"

\* whether startBotMatch first calls cancelMatchmaking
BotCancels(cur) == cur.status # "idle" /\ cur.status # "bot"

startBotMatch(s) ==
    /\ UserOp
    /\ gen[s] < MaxGen
    /\ LET cur == stateRef[s]
            nextMatchId == generateId(s, gen[s] + 1)
            cancels == BotCancels(cur)
            sent == IF cancels THEN CancelSent(cur) ELSE <<>>
        IN  /\ CanPost(s, sent)
            /\ inbox' = Posted(inbox, s, sent)
            /\ storage' = IF cancels THEN CancelStorage(cur, storage, now) ELSE storage
            /\ available' = [available EXCEPT
                    ![s] = IF cancels THEN CancelAvailable(cur, storage, now, s, @)
                           ELSE @]
            /\ state' = [state EXCEPT ![s] = BotState(nextMatchId)]
            /\ stateRef' = [stateRef EXCEPT ![s] = BotState(nextMatchId)]
            /\ last' = DidRead("startBotMatch", s, Null, NoMsg, sent,
                                cancels /\ CancelClearsQueue(cur))
    /\ gen' = [gen EXCEPT ![s] = @ + 1]
    /\ ops' = ops + 1
    /\ UNCHANGED <<board, now, echoes, mounted, game, engine>>

\* ----------------------------------------------------------- createInvite
createInvite(s) ==
    /\ UserOp
    /\ gen[s] < MaxGen
    /\ LET cur == stateRef[s]
            cancels == cur.status # "idle"
            sent == IF cancels THEN CancelSent(cur) ELSE <<>>
            matchId == generateId(s, gen[s] + 1)
        IN  /\ CanPost(s, sent)
            /\ inbox' = Posted(inbox, s, sent)
            /\ storage' = IF cancels THEN CancelStorage(cur, storage, now) ELSE storage
            /\ available' = [available EXCEPT
                    ![s] = IF cancels THEN CancelAvailable(cur, storage, now, s, @)
                           ELSE @]
            /\ state' = [state EXCEPT ![s] = InvitingState(matchId)]
            /\ stateRef' = [stateRef EXCEPT ![s] = InvitingState(matchId)]
            /\ last' = DidRead("createInvite", s, Null, NoMsg, sent,
                                cancels /\ CancelClearsQueue(cur))
    /\ gen' = [gen EXCEPT ![s] = @ + 1]
    /\ ops' = ops + 1
    /\ UNCHANGED <<board, now, echoes, mounted, game, engine>>

\* ------------------------------------------------------------- joinInvite
\* the identifiers a user can have been handed: a session's own id (the
\* quick-match id) or an identifier some session has drawn
InviteIds == Sessions \cup {generateId(s, n) : s \in Sessions, n \in 1..MaxGen}

KnownIds == {m \in InviteIds : m \in Sessions \/
                \E s \in Sessions : \E n \in 1..gen[s] : m = generateId(s, n)}

joinInvite(s, matchId) ==
    /\ UserOp
    /\ matchId # Null
    /\ LET cur == stateRef[s]
            cancels == cur.status # "idle"
            sent == (IF cancels THEN CancelSent(cur) ELSE <<>>)
                        \o <<MatchJoin(matchId, s)>>
        IN  /\ CanPost(s, sent)
            /\ inbox' = Posted(inbox, s, sent)
            /\ storage' = IF cancels THEN CancelStorage(cur, storage, now) ELSE storage
            /\ available' = [available EXCEPT
                    ![s] = IF cancels THEN CancelAvailable(cur, storage, now, s, @)
                           ELSE @]
            /\ state' = [state EXCEPT ![s] = JoiningState(matchId, Null)]
            /\ stateRef' = [stateRef EXCEPT ![s] = JoiningState(matchId, Null)]
            /\ last' = DidRead("joinInvite", s, Null, NoMsg, sent,
                                cancels /\ CancelClearsQueue(cur))
    /\ ops' = ops + 1
    /\ UNCHANGED <<board, now, gen, echoes, mounted, game, engine>>


\* --------------------------------------------------------- beginQuickMatch
\* an enqueue that forgets to drop the caller's earlier entry
QuickEnqueuedKeepsOld(queue, self, t) ==
    Append(queue, [id |-> self, createdAt |-> t])

\* the queue beginQuickMatch writes when it finds nobody to join
QuickEnqueued(queue, self, t) ==
    Append(WithoutId(queue, self), [id |-> self, createdAt |-> t])

beginQuickMatch(s) ==
    /\ UserOp
    /\ LET queue == readQueue(storage, now)
            others == WithoutId(queue, s)
            joins == Len(others) > 0
            hostEntry == others[1]
            sent == IF joins THEN <<MatchJoin(hostEntry.id, s)>> ELSE <<>>
            next == IF joins THEN JoiningState(hostEntry.id, hostEntry.id)
                    ELSE SearchingState(s)
            stored == IF joins THEN clearQueueEntry(queue, hostEntry.id, now)
                      ELSE QuickEnqueued(queue, s, now)
        IN  /\ CanPost(s, sent)
            /\ inbox' = Posted(inbox, s, sent)
            /\ storage' = stored
            /\ available' = [available EXCEPT ![s] = OthersCount(stored, s)]
            /\ state' = [state EXCEPT ![s] = next]
            /\ stateRef' = [stateRef EXCEPT ![s] = next]
            /\ last' = DidRead("beginQuickMatch", s, Null, NoMsg, sent, TRUE)
    /\ ops' = ops + 1
    /\ UNCHANGED <<board, now, gen, echoes, mounted, game, engine>>

\* ---------------------------------------------------------------- emitMove
\* an emitMove that checks only the match id
EmitSendsAnyStatus(cur) == cur.matchId # Null

EmitSends(cur) ==
    cur.matchId # Null /\ cur.status = "matched" /\ cur.opponentType = "human"

\* what emitMove(san) posts
EmitSent(cur, self, san) ==
    IF EmitSends(cur) THEN <<MoveMsg(cur.matchId, san, self)>> ELSE <<>>

emitMove(s, san) ==
    /\ UserOp
    /\ LET sent == EmitSent(stateRef[s], s, san)
        IN  /\ CanPost(s, sent)
            /\ inbox' = Posted(inbox, s, sent)
            /\ last' = Did("emitMove", s, Null, NoMsg, sent)
    /\ ops' = ops + 1
    /\ UNCHANGED <<state, stateRef, storage, available, board, now, gen, echoes, mounted, game, engine>>

\* App.handlePlayerDrop: the player drops a piece that makes the move san
DropAllowed(cur, b) ==
    /\ cur.status \notin {"searching", "joining"}
    /\ (cur.status \in {"idle", "inviting"} \/ turn(b) = cur.playerColor)

handlePlayerDrop(s, san) ==
    /\ UserOp
    /\ DropAllowed(stateRef[s], board[s])
    /\ san \in LegalSans(board[s])
    /\ LET cur == stateRef[s]
            sent == IF cur.opponentType = "human" /\ cur.status = "matched"
                    THEN EmitSent(cur, s, san) ELSE <<>>
        IN  /\ CanPost(s, sent)
            /\ inbox' = Posted(inbox, s, sent)
            /\ last' = Did("handlePlayerDrop", s, Null, NoMsg, sent)
    /\ board' = [board EXCEPT ![s] = Append(@, san)]
    /\ ops' = ops + 1
    /\ UNCHANGED <<state, stateRef, storage, available, now, gen, echoes, mounted, game, engine>>

\* ------------------------------------------------------------ handleMessage
\* a host that answers joins to invites only
JoinAcceptedInvitingOnly(cur, m) ==
    /\ cur.matchId # Null /\ cur.matchId = m.matchId
    /\ cur.isHost /\ cur.status = "inviting"

JoinAccepted(cur, m) ==
    /\ cur.matchId # Null /\ cur.matchId = m.matchId
    /\ cur.isHost /\ cur.status # "matched"

\* a confirm handler that takes every confirm as its own
ConfirmAcceptedByAll(self, m) == TRUE

ConfirmAccepted(self, m) == m.guestId = self

\* a cancel handler that does not compare match ids
CancelAcceptedAnyId(cur, m) == cur.matchId # Null

\* a cancel handler that spares an active match
CancelAcceptedUnlessMatched(cur, m) ==
    cur.matchId # Null /\ cur.matchId = m.matchId /\ cur.status # "matched"

CancelAccepted(cur, m) == cur.matchId # Null /\ cur.matchId = m.matchId

MoveAccepted(cur, self, m) ==
    cur.matchId = m.matchId /\ m.senderId # self

\* the state handleMessage sets; prev when it sets none
HandledState(cur, prev, self, m) ==
    CASE m.type = "match-join" /\ JoinAccepted(cur, m) ->
            MatchedState(m.matchId, "white", m.guestId, TRUE)
      [] m.type = "match-confirm" /\ ConfirmAccepted(self, m) ->
            MatchedState(m.matchId, "black", m.hostId, FALSE)
      [] m.type = "match-cancel" /\ CancelAccepted(cur, m) -> createInitialState
      [] OTHER -> prev

\* what handleMessage posts
HandledSent(cur, self, m) ==
    IF m.type = "match-join" /\ JoinAccepted(cur, m)
    THEN <<MatchConfirm(m.matchId, self, m.guestId)>>
    ELSE <<>>

\* the queue handleMessage leaves: setMatched clears the host's entry, and
\* both it and the cancel branch end in syncAvailableMatches, which reads
HandledStorage(cur, self, m, q, t) ==
    CASE m.type = "match-join" /\ JoinAccepted(cur, m) -> clearQueueEntry(q, self, t)
      [] m.type = "match-cancel" /\ CancelAccepted(cur, m) -> readQueue(q, t)
      [] OTHER -> q

\* whether handleMessage reads the queue, and the count it then shows
HandledReads(cur, m) ==
    \/ m.type = "match-join" /\ JoinAccepted(cur, m)
    \/ m.type = "match-cancel" /\ CancelAccepted(cur, m)

HandledAvailable(cur, self, m, q, t, shown) ==
    IF HandledReads(cur, m)
    THEN OthersCount(HandledStorage(cur, self, m, q, t), self)
    ELSE shown

HandledBoard(cur, self, m, b) ==
    IF m.type = "move" /\ MoveAccepted(cur, self, m)
    THEN applyMoveBySan(b, m.san)
    ELSE b

handleMessage(s, i) ==
    /\ Deliverable(s, i)
    /\ LET env == inbox[s][i]
            m == env.msg
            cur == stateRef[s]
            sent == HandledSent(cur, s, m)
            rest == [inbox EXCEPT ![s] = RemoveAt(@, i)]
            stored == HandledStorage(cur, s, m, storage, now)
        IN  /\ Fits(rest, s, sent)
            /\ inbox' = Posted(rest, s, sent)
            /\ storage' = stored
            /\ available' = [available EXCEPT
                    ![s] = HandledAvailable(cur, s, m, storage, now, @)]
            /\ state' = [state EXCEPT ![s] = HandledState(cur, @, s, m)]
            /\ board' = [board EXCEPT ![s] = HandledBoard(cur, s, m, @)]
            /\ last' = DidRead("handleMessage", s, env.from, m, sent,
                                HandledReads(cur, m))
    /\ UNCHANGED <<stateRef, now, gen, ops, echoes, mounted, game, engine>>

\* the matchmaking state, which the board hook and the search never touch
matchVars == <<state, stateRef, storage, available, inbox, board, now, gen, ops,
               echoes, mounted>>

\* ------------------------------------------------- effects, polls, the clock
\* useEffect(() => { stateRef.current = state }, [state])
SyncStateRef(s) ==
    /\ stateRef[s] # state[s]
    /\ stateRef' = [stateRef EXCEPT ![s] = state[s]]
    /\ last' = Quiet
    /\ UNCHANGED <<state, storage, available, inbox, board, now, gen, ops, echoes, mounted, game, engine>>

\* the 5 s poll and the storage event
syncAvailableMatches(s) ==
    /\ storage' = readQueue(storage, now)
    /\ available' = [available EXCEPT ![s] = OthersCount(storage', s)]
    /\ storage' # storage \/ available' # available
    /\ last' = DidRead("syncAvailableMatches", s, Null, NoMsg, <<>>, TRUE)
    /\ UNCHANGED <<state, stateRef, inbox, board, now, gen, ops, echoes, mounted, game, engine>>

Tick ==
    /\ UserOp
    /\ now < MaxTicks * TickMs
    /\ ops' = ops + 1
    /\ now' = now + TickMs
    /\ last' = Quiet
    /\ UNCHANGED <<state, stateRef, storage, available, inbox, board, gen, echoes, mounted, game, engine>>

\* no call of the search yet
NoSearch ==
    [op |-> "none", game |-> [over |-> "no", pieces |-> <<>>, mobility |-> 0, kids |-> <<>>],
     toMove |-> "w", perspective |-> "w", depth |-> 0, called |-> FALSE,
     score |-> 0, bonuses |-> <<>>, move |-> 0, stood |-> <<>>, left |-> <<>>]

\* ------------------------------------------------- chess.js, a fragment
\* The games played here move only the two king's knights, the white one
\* among g1, f3, e5 and g4 and the black one among g8, f6, g4 and e5, and
\* the two a-pawns, each one step, a2-a3 and a7-a6.  No such move gives
\* check or uncovers one, castling rights and the en passant square never
\* change, and a knight that steps on the other takes it.  A position is
\* the two knights' squares (Gone once taken), the two pawns' squares, the
\* side to move, the half-move clock and the full-move number.
Gone == "x"

StartPos == [w |-> "g1", b |-> "g8", wp |-> "a2", bp |-> "a7",
             turn |-> "w", half |-> 0, full |-> 1]

\* a knight's targets from each square, in the order chess.js generates them
KnightTargets(sq) ==
    CASE sq = "g1" -> <<"f3">>
      [] sq = "f3" -> <<"e5", "g1">>
      [] sq = "e5" -> <<"g4", "f3">>
      [] sq = "g4" -> <<"e5", "f6">>
      [] sq = "f6" -> <<"g8", "g4">>
      [] sq = "g8" -> <<"f6">>
      [] OTHER -> <<>>

Range(color) == IF color = "w" THEN {"g1", "f3", "e5", "g4"}
                ELSE {"g8", "f6", "g4", "e5"}

Other(color) == IF color = "w" THEN "b" ELSE "w"

QuietSan(to) ==
    CASE to = "g1" -> "Ng1" [] to = "f3" -> "Nf3" [] to = "e5" -> "Ne5"
      [] to = "g4" -> "Ng4" [] to = "f6" -> "Nf6" [] OTHER -> "Ng8"

CaptureSan(to) == IF to = "e5" THEN "Nxe5" ELSE "Nxg4"

NoMove == [color |-> "", piece |-> "", from |-> "", to |-> "", captured |-> "",
           san |-> ""]

\* the Move object for the mover's knight going to `to`
ChessMoveTo(pos, to) ==
    LET takes == pos[Other(pos.turn)] = to
    IN  [color |-> pos.turn, piece |-> "n", from |-> pos[pos.turn], to |-> to,
         captured |-> IF takes THEN "n" ELSE "",
         san |-> IF takes THEN CaptureSan(to) ELSE QuietSan(to)]

\* the mover's knight moves, in the order of its targets
ChessMoves(pos) ==
    LET targets == SelectSeq(KnightTargets(pos[pos.turn]),
                             LAMBDA to : to \in Range(pos.turn))
    IN  [i \in 1..Len(targets) |-> ChessMoveTo(pos, targets[i])]

\* the step of the mover's a-pawn, while it stands at home
PawnMoves(pos) ==
    IF pos.turn = "w" /\ pos.wp = "a2"
    THEN {[color |-> "w", piece |-> "p", from |-> "a2", to |-> "a3",
           captured |-> "", san |-> "a3"]}
    ELSE IF pos.turn = "b" /\ pos.bp = "a7"
    THEN {[color |-> "b", piece |-> "p", from |-> "a7", to |-> "a6",
           captured |-> "", san |-> "a6"]}
    ELSE {}

\* Chess.moves({ verbose: true }), as a set
MoveSet(pos) ==
    {ChessMoves(pos)[i] : i \in 1..Len(ChessMoves(pos))} \cup PawnMoves(pos)

\* the position a move leads to
ChessPlay(pos, mv) ==
    IF mv.piece = "p"
    THEN [pos EXCEPT !.wp = IF mv.color = "w" THEN mv.to ELSE @,
                     !.bp = IF mv.color = "b" THEN mv.to ELSE @,
                     !.turn = Other(pos.turn),
                     !.half = 0,
                     !.full = IF mv.color = "b" THEN @ + 1 ELSE @]
    ELSE [pos EXCEPT
            !.w = IF mv.color = "w" THEN mv.to
                  ELSE IF mv.captured # "" THEN Gone ELSE @,
            !.b = IF mv.color = "b" THEN mv.to
                  ELSE IF mv.captured # "" THEN Gone ELSE @,
            !.turn = Other(pos.turn),
            !.half = IF mv.captured # "" THEN 0 ELSE @ + 1,
            !.full = IF mv.color = "b" THEN @ + 1 ELSE @]

ButLast(seq) == SubSeq(seq, 1, Len(seq) - 1)

\* a Chess object made by new Chess() is the moves made on it; these are
\* the positions it went through, the starting position first
RECURSIVE PositionsFrom(_, _, _)
PositionsFrom(pos, moves, i) ==
    IF i > Len(moves) THEN <<pos>>
    ELSE <<pos>> \o PositionsFrom(ChessPlay(pos, moves[i]), moves, i + 1)

ChessPositions(moves) == PositionsFrom(StartPos, moves, 1)

RECURSIVE PositionFrom(_, _, _)
PositionFrom(pos, moves, i) ==
    IF i > Len(moves) THEN pos
    ELSE PositionFrom(ChessPlay(pos, moves[i]), moves, i + 1)

\* the position the object stands in
ChessPosition(moves) == PositionFrom(StartPos, moves, 1)

\* Chess.fen(): every field of the position, the two counters included
ChessFen(pos) == <<pos.w, pos.b, pos.wp, pos.bp, pos.turn, pos.half, pos.full>>

\* what chess.js compares to find a repetition: the fen without counters
RepetitionKey(pos) == <<pos.w, pos.b, pos.wp, pos.bp, pos.turn>>

Occurrences(moves) ==
    LET seen == ChessPositions(moves)
    IN  Cardinality({i \in 1..Len(seen) :
            RepetitionKey(seen[i]) = RepetitionKey(seen[Len(seen)])})

ChessIsThreefoldRepetition(moves) == Occurrences(moves) >= 3

\* in the fragment a game ends only in a draw, by repetition or by the
\* fifty-move rule
ChessIsDraw(moves) ==
    ChessIsThreefoldRepetition(moves) \/ ChessPosition(moves).half >= 100

ChessIsGameOver(moves) == ChessIsDraw(moves)

\* what Chess.move does with a move that is not legal: the release in use
\* either returns null or throws
MoveOutcomes == {"null", "throws"}

\* ---------------------------------------------------------- useChessGame
NoSquares == [from |-> "", to |-> ""]

NoCapture == [move |-> NoMove, capturedBy |-> ""]

initialCaptures == [byWhite |-> <<>>, byBlack |-> <<>>]

\* the hook after it mounts, and after resetGame
NewGame ==
    [chess |-> <<>>,
     position |-> ChessFen(StartPos),
     history |-> <<>>,
     lastMoveSquares |-> NoSquares,
     captures |-> initialCaptures,
     lastCapture |-> NoCapture,
     positionCounts |-> (ChessFen(StartPos) :> 1),
     repetitionCount |-> 1]

CountOf(counts, fen) == IF fen \in DOMAIN counts THEN counts[fen] ELSE 0

\* updatePositionCountsAfterMove: the map with the count of fen raised
Counted(counts, fen) ==
    [f \in DOMAIN counts \cup {fen} |->
        IF f = fen THEN CountOf(counts, fen) + 1 ELSE counts[f]]

\* a rebuild that forgets the starting position
RECURSIVE rebuildWithoutStart(_)
rebuildWithoutStart(moves) ==
    IF moves = <<>> THEN <<>>
    ELSE Counted(rebuildWithoutStart(ButLast(moves)), ChessFen(ChessPosition(moves)))

\* rebuildPositionCounts: the map counted again from the starting position
RECURSIVE rebuildPositionCounts(_)
rebuildPositionCounts(moves) ==
    IF moves = <<>> THEN (ChessFen(StartPos) :> 1)
    ELSE Counted(rebuildPositionCounts(ButLast(moves)), ChessFen(ChessPosition(moves)))

CapturedBy(mv) == IF mv.color = "w" THEN "white" ELSE "black"

\* a key that names the other side's list
CapturesKeyOther(mv) == IF CapturedBy(mv) = "white" THEN "byBlack" ELSE "byWhite"
CapturesKey(mv) == IF CapturedBy(mv) = "white" THEN "byWhite" ELSE "byBlack"

\* a commitMove that marks no squares
commitMoveNoSquares(g, mv, squares) ==
    LET chess == Append(g.chess, mv)
        fen == ChessFen(ChessPosition(chess))
        counts == Counted(g.positionCounts, fen)
    IN  [chess |-> chess,
         position |-> fen,
         history |-> chess,
         lastMoveSquares |-> NoSquares,
         captures |-> IF mv.captured # ""
                      THEN [g.captures EXCEPT
                                ![CapturesKey(mv)] = Append(@, mv.captured)]
                      ELSE g.captures,
         lastCapture |-> IF mv.captured # ""
                         THEN [move |-> mv, capturedBy |-> CapturedBy(mv)]
                         ELSE NoCapture,
         positionCounts |-> counts,
         repetitionCount |-> counts[fen]]

\* commitMove for a move chess.js has made
commitMove(g, mv, squares) ==
    LET chess == Append(g.chess, mv)
        fen == ChessFen(ChessPosition(chess))
        counts == Counted(g.positionCounts, fen)
    IN  [chess |-> chess,
         position |-> fen,
         history |-> chess,
         lastMoveSquares |-> squares,
         captures |-> IF mv.captured # ""
                      THEN [g.captures EXCEPT
                                ![CapturesKey(mv)] = Append(@, mv.captured)]
                      ELSE g.captures,
         lastCapture |-> IF mv.captured # ""
                         THEN [move |-> mv, capturedBy |-> CapturedBy(mv)]
                         ELSE NoCapture,
         positionCounts |-> counts,
         repetitionCount |-> counts[fen]]

\* a hook that lets a finished game go on
RejectsNothing(chess) == FALSE

\* the check both move handlers make first
Rejects(chess) == ChessIsGameOver(chess)

\* Chess.move followed by commitMove: hits are the legal moves the argument
\* names; the result is the hook's new state and what the call returned
Moved(g, hits, outcome) ==
    IF Rejects(g.chess) THEN [game |-> g, ret |-> "false"]
    ELSE IF hits = {}
    THEN [game |-> g, ret |-> IF outcome = "throws" THEN "threw" ELSE "false"]
    ELSE LET mv == CHOOSE m \in hits : TRUE
         IN  [game |-> commitMove(g, mv, [from |-> mv.from, to |-> mv.to]),
              ret |-> "true"]

DropHits(g, from, to) ==
    {m \in MoveSet(ChessPosition(g.chess)) : m.from = from /\ m.to = to}

SanHits(g, san) == {m \in MoveSet(ChessPosition(g.chess)) : m.san = san}

\* an undoMove that leaves the capture lists as they are
UndoneKeepsCaptures(g) ==
    IF g.chess = <<>> THEN g
    ELSE LET chess == ButLast(g.chess)
             fen == ChessFen(ChessPosition(chess))
             counts == rebuildPositionCounts(chess)
         IN  [chess |-> chess,
              position |-> fen,
              history |-> chess,
              lastMoveSquares |->
                  IF chess = <<>> THEN NoSquares
                  ELSE [from |-> chess[Len(chess)].from, to |-> chess[Len(chess)].to],
              captures |-> g.captures,
              lastCapture |-> NoCapture,
              positionCounts |-> counts,
              repetitionCount |-> IF fen \in DOMAIN counts THEN counts[fen] ELSE 1]

\* the hook's state after undoMove
Undone(g) ==
    IF g.chess = <<>> THEN g
    ELSE LET undone == g.chess[Len(g.chess)]
             chess == ButLast(g.chess)
             fen == ChessFen(ChessPosition(chess))
             counts == rebuildPositionCounts(chess)
             key == CapturesKey(undone)
         IN  [chess |-> chess,
              position |-> fen,
              history |-> chess,
              lastMoveSquares |->
                  IF chess = <<>> THEN NoSquares
                  ELSE [from |-> chess[Len(chess)].from, to |-> chess[Len(chess)].to],
              captures |-> IF undone.captured # ""
                           THEN [g.captures EXCEPT ![key] = ButLast(@)]
                           ELSE g.captures,
              lastCapture |-> NoCapture,
              positionCounts |-> counts,
              repetitionCount |-> IF fen \in DOMAIN counts THEN counts[fen] ELSE 1]

\* the status memo
status(g) ==
    [moveCount |-> Len(g.history),
     isDraw |-> ChessIsDraw(g.chess),
     isThreefoldRepetition |-> ChessIsThreefoldRepetition(g.chess)]

\* observation of the hook's last call
NoGame == [none |-> TRUE]

\* (named: the legal moves the call's argument named in the position found)
Still == [op |-> "none", ret |-> "", named |-> {},
          pre |-> NewGame, beforeMove |-> NoGame, undone |-> NoGame]

\* the game as it was before the latest move, while nothing else has
\* changed it since
BeforeMove(ret) == IF ret = "true" THEN game ELSE last.beforeMove

Drops == {<<"g1", "f3">>, <<"f3", "g1">>, <<"f3", "e5">>, <<"e5", "f3">>,
          <<"e5", "g4">>, <<"g4", "e5">>, <<"g8", "f6">>, <<"f6", "g8">>,
          <<"f6", "g4">>, <<"g4", "f6">>, <<"a2", "a3">>, <<"a7", "a6">>}

GameSans == {"Ng1", "Nf3", "Ne5", "Ng4", "Nf6", "Ng8", "Nxe5", "Nxg4", "a3", "a6"}

\* The drops and notations tried in a game: every one that names a legal
\* move and one that names none (all that name none take the same step).
DropsTried(g) ==
    LET legal == {d \in Drops : DropHits(g, d[1], d[2]) # {}}
    IN  legal \cup {CHOOSE d \in Drops : d \notin legal}

SansTried(g) ==
    LET legal == {san \in GameSans : SanHits(g, san) # {}}
    IN  legal \cup {CHOOSE san \in GameSans : san \notin legal}

\* what Chess.move does with an illegal move matters only for such a move
OutcomesTried(hits) == IF hits = {} THEN MoveOutcomes ELSE {"null"}

\* the model follows a game for MaxHistory half-moves
InBounds(g) == Len(g.chess) <= MaxHistory

handleDrop(from, to, outcome) ==
    /\ LET hits == DropHits(game, from, to)
           res == Moved(game, hits, outcome)
       IN  /\ InBounds(res.game)
           /\ game' = res.game
           /\ last' = [op |-> "handleDrop", ret |-> res.ret,
                       named |-> hits, pre |-> game,
                       beforeMove |-> BeforeMove(res.ret), undone |-> NoGame]
    /\ UNCHANGED <<matchVars, engine, app>>

applyMoveBySanToGame(san, outcome) ==
    /\ LET hits == SanHits(game, san)
           res == Moved(game, hits, outcome)
       IN  /\ InBounds(res.game)
           /\ game' = res.game
           /\ last' = [op |-> "applyMoveBySan", ret |-> res.ret,
                       named |-> hits, pre |-> game,
                       beforeMove |-> BeforeMove(res.ret), undone |-> NoGame]
    /\ UNCHANGED <<matchVars, engine, app>>

undoMove ==
    /\ game' = Undone(game)
    /\ last' = [Still EXCEPT !.op = "undoMove", !.pre = game,
                             !.undone = IF game.chess = <<>> THEN NoGame
                                        ELSE last.beforeMove]
    /\ UNCHANGED <<matchVars, engine, app>>

\* a reset that keeps the capture lists
resetGameKeepsCaptures ==
    /\ game' = [NewGame EXCEPT !.captures = game.captures]
    /\ last' = [Still EXCEPT !.op = "resetGame", !.pre = game]
    /\ UNCHANGED <<matchVars, engine, app>>

resetGame ==
    /\ game' = NewGame
    /\ last' = [Still EXCEPT !.op = "resetGame", !.pre = game]
    /\ UNCHANGED <<matchVars, engine, app>>

\* -------------------------------------------------------------- chessAi
\* JavaScript's Infinity: larger than any score a board can have
Infinity == 1000000

pieceValues == [p |-> 100, n |-> 320, b |-> 330, r |-> 500, q |-> 900, k |-> 20000]

\* board()[rank][file] has rank 0 for the eighth rank; entry rank * 8 + file
\* of a table is element rank * 8 + file + 1 here
pieceSquareTables ==
    [
     p |-> <<
          0, 0, 0, 0, 0, 0, 0, 0,
          50, 50, 50, 50, 50, 50, 50, 50,
          10, 10, 20, 30, 30, 20, 10, 10,
          5, 5, 10, 27, 27, 10, 5, 5,
          0, 0, 0, 25, 25, 0, 0, 0,
          5, -5, -10, 0, 0, -10, -5, 5,
          5, 10, 10, -25, -25, 10, 10, 5,
          0, 0, 0, 0, 0, 0, 0, 0>>,
     n |-> <<
          -50, -40, -30, -30, -30, -30, -40, -50,
          -40, -20, 0, 5, 5, 0, -20, -40,
          -30, 5, 10, 15, 15, 10, 5, -30,
          -30, 0, 15, 20, 20, 15, 0, -30,
          -30, 5, 15, 20, 20, 15, 5, -30,
          -30, 0, 10, 15, 15, 10, 0, -30,
          -40, -20, 0, 0, 0, 0, -20, -40,
          -50, -40, -30, -30, -30, -30, -40, -50>>,
     b |-> <<
          -20, -10, -10, -10, -10, -10, -10, -20,
          -10, 0, 5, 10, 10, 5, 0, -10,
          -10, 10, 10, 15, 15, 10, 10, -10,
          -10, 0, 15, 20, 20, 15, 0, -10,
          -10, 5, 15, 20, 20, 15, 5, -10,
          -10, 10, 15, 15, 15, 15, 10, -10,
          -10, 5, 0, 0, 0, 0, 5, -10,
          -20, -10, -10, -10, -10, -10, -10, -20>>,
     r |-> <<
          0, 0, 5, 10, 10, 5, 0, 0,
          -5, 0, 5, 10, 10, 5, 0, -5,
          -5, 0, 5, 10, 10, 5, 0, -5,
          -5, 0, 5, 10, 10, 5, 0, -5,
          -5, 0, 5, 10, 10, 5, 0, -5,
          -5, 0, 5, 10, 10, 5, 0, -5,
          5, 10, 10, 10, 10, 10, 10, 5,
          0, 0, 0, 0, 0, 0, 0, 0>>,
     q |-> <<
          -20, -10, -10, -5, -5, -10, -10, -20,
          -10, 0, 5, 0, 0, 5, 0, -10,
          -10, 5, 5, 5, 5, 5, 5, -10,
          -5, 0, 5, 5, 5, 5, 0, -5,
          0, 0, 5, 5, 5, 5, 0, -5,
          -10, 5, 5, 5, 5, 5, 5, -10,
          -10, 0, 5, 0, 0, 5, 0, -10,
          -20, -10, -10, -5, -5, -10, -10, -20>>,
     k |-> <<
          -30, -40, -40, -50, -50, -40, -40, -30,
          -30, -40, -40, -50, -50, -40, -40, -30,
          -30, -40, -40, -50, -50, -40, -40, -30,
          -30, -40, -40, -50, -50, -40, -40, -30,
          -20, -30, -30, -40, -40, -30, -30, -20,
          -10, -20, -20, -20, -20, -20, -20, -10,
          20, 30, 0, 0, 0, 0, 30, 20,
          20, 40, 10, 0, 0, 10, 40, 20>>]

reverseTable(table) == [i \in 1..Len(table) |-> table[Len(table) + 1 - i]]

pieceTablesBlack ==
    [x \in DOMAIN pieceSquareTables |-> reverseTable(pieceSquareTables[x])]

\* a piece on the board: its type, colour and the indices board() gives it
Piece(type, color, rank, file) ==
    [type |-> type, color |-> color, rank |-> rank, file |-> file]

\* the positional bonus evaluateBoard looks up for one piece
positional(square) ==
    LET table == IF square.color = "w" THEN pieceSquareTables ELSE pieceTablesBlack
    IN  table[square.type][square.rank * 8 + square.file + 1]

contribution(square, perspective) ==
    LET value == pieceValues[square.type] + positional(square)
    IN  IF square.color = perspective THEN value ELSE 0 - value

RECURSIVE SumContributions(_, _)
SumContributions(pieces, perspective) ==
    IF pieces = <<>> THEN 0
    ELSE contribution(pieces[1], perspective)
            + SumContributions(SubSeq(pieces, 2, Len(pieces)), perspective)

\* A position the search meets is what chess.js reports of it: whether it
\* is checkmate or a draw (over), the pieces of board(), the number of
\* legal moves (mobility) and, while the search still has depth left, the
\* positions its legal moves lead to, in the order moves() lists them
\* (kids).  The side to move alternates along a line.
Position(over, pieces, mobility, kids) ==
    [over |-> over, pieces |-> pieces, mobility |-> mobility, kids |-> kids]

\* an evaluation that forgets the draw
evaluateBoardNoDraw(g, toMove, perspective) ==
    IF g.over = "checkmate"
    THEN IF toMove = perspective THEN 0 - Infinity ELSE Infinity
    ELSE SumContributions(g.pieces, perspective)
            + (IF perspective = toMove THEN g.mobility ELSE 0) * 5

evaluateBoard(g, toMove, perspective) ==
    IF g.over = "checkmate"
    THEN IF toMove = perspective THEN 0 - Infinity ELSE Infinity
    ELSE IF g.over = "draw" THEN 0
    ELSE SumContributions(g.pieces, perspective)
            + (IF perspective = toMove THEN g.mobility ELSE 0) * 5

Max(a, b) == IF a >= b THEN a ELSE b

Min(a, b) == IF a <= b THEN a ELSE b

\* The Chess object a search works on: the position it was made from
\* (root) with the side to move there, and the moves made on it and not
\* undone, each the index of the move in the list moves() gave for the
\* position it was made in.
Searching(g, toMove) == [root |-> g, toMove |-> toMove, made |-> <<>>]

RECURSIVE NodeAt(_, _)
NodeAt(g, made) ==
    IF made = <<>> THEN g ELSE NodeAt(g.kids[Head(made)], Tail(made))

\* the position the object stands in, and the side to move there
Current(chess) == NodeAt(chess.root, chess.made)

Turn(chess) ==
    IF Len(chess.made) % 2 = 0 THEN chess.toMove ELSE Other(chess.toMove)

\* game.move(move), for the move that was i-th in a list of moves; a move
\* that is not legal where the object stands changes nothing
ChessMove(chess, i) ==
    IF i \in 1..Len(Current(chess).kids)
    THEN [chess EXCEPT !.made = Append(@, i)]
    ELSE chess

\* game.undo()
ChessUndo(chess) == [chess EXCEPT !.made = ButLast(@)]

\* what a search returns, and the object as it leaves it
Returned(value, chess) == [value |-> value, chess |-> chess]

RECURSIVE minimax(_, _, _, _, _, _)
RECURSIVE MaximizingLoop(_, _, _, _, _, _, _, _)
RECURSIVE MinimizingLoop(_, _, _, _, _, _, _, _)

\* a maximizing loop that breaks out before it takes the move back
MaximizingLoopBreaksFirst(chess, moves, depth, a, beta, perspective, i, value) ==
    IF i > moves THEN Returned(value, chess)
    ELSE LET below == minimax(ChessMove(chess, i), depth - 1, a, beta, FALSE,
                              perspective)
             v == Max(value, below.value)
             a2 == Max(a, v)
         IN  IF beta <= a2 THEN Returned(v, below.chess)
             ELSE MaximizingLoop(ChessUndo(below.chess), moves, depth, a2, beta,
                                 perspective, i + 1, v)

\* the maximizing loop of minimax from move i of `moves` on, with the value
\* and the lower bound a reached so far
MaximizingLoop(chess, moves, depth, a, beta, perspective, i, value) ==
    IF i > moves THEN Returned(value, chess)
    ELSE LET below == minimax(ChessMove(chess, i), depth - 1, a, beta, FALSE,
                              perspective)
             v == Max(value, below.value)
             undone == ChessUndo(below.chess)
             a2 == Max(a, v)
         IN  IF beta <= a2 THEN Returned(v, undone)
             ELSE MaximizingLoop(undone, moves, depth, a2, beta, perspective,
                                 i + 1, v)

\* a minimizing loop that compares with its upper bound where the code
\* compares with alpha
MinimizingLoopBreaksAtBeta(chess, moves, depth, alpha, b, perspective, i, value) ==
    IF i > moves THEN Returned(value, chess)
    ELSE LET below == minimax(ChessMove(chess, i), depth - 1, alpha, b, TRUE,
                              perspective)
             v == Min(value, below.value)
             undone == ChessUndo(below.chess)
             b2 == Min(b, v)
         IN  IF b2 <= b THEN Returned(v, undone)
             ELSE MinimizingLoop(undone, moves, depth, alpha, b2, perspective,
                                 i + 1, v)

MinimizingLoop(chess, moves, depth, alpha, b, perspective, i, value) ==
    IF i > moves THEN Returned(value, chess)
    ELSE LET below == minimax(ChessMove(chess, i), depth - 1, alpha, b, TRUE,
                              perspective)
             v == Min(value, below.value)
             undone == ChessUndo(below.chess)
             b2 == Min(b, v)
         IN  IF b2 <= alpha THEN Returned(v, undone)
             ELSE MinimizingLoop(undone, moves, depth, alpha, b2, perspective,
                                 i + 1, v)

minimax(chess, depth, alpha, beta, maximizing, perspective) ==
    LET g == Current(chess)
    IN  IF depth = 0 \/ g.over # "no"
        THEN Returned(evaluateBoard(g, Turn(chess), perspective), chess)
        ELSE IF maximizing
        THEN MaximizingLoop(chess, Len(g.kids), depth, alpha, beta, perspective,
                            1, 0 - Infinity)
        ELSE MinimizingLoop(chess, Len(g.kids), depth, alpha, beta, perspective,
                            1, Infinity)

\* the loop of selectEngineMove over the root's moves: the score minimax
\* returned for each, the moves standing on the object at each return, and
\* the object at the end
RECURSIVE RootLoop(_, _, _, _, _, _, _)
RootLoop(chess, moves, depth, perspective, i, scores, stood) ==
    IF i > moves THEN [scores |-> scores, stood |-> stood, chess |-> chess]
    ELSE LET below == minimax(ChessMove(chess, i), depth - 1,
                              0 - Infinity, Infinity, FALSE, perspective)
         IN  RootLoop(ChessUndo(below.chess), moves, depth, perspective, i + 1,
                      Append(scores, below.value),
                      Append(stood, below.chess.made))

RootSearch(g, toMove, perspective, depth) ==
    RootLoop(Searching(g, toMove), Len(g.kids), depth, perspective, 1, <<>>, <<>>)

\* the score selectEngineMove finds for each move of the root
RootScores(g, toMove, perspective, depth) ==
    RootSearch(g, toMove, perspective, depth).scores

\* the comparison that replaces the best move
Better(score, bestScore) == score > bestScore

\* the loop of selectEngineMove from move i on; move 0 is null
RECURSIVE BestMove(_, _, _, _)
BestMove(scores, i, bestScore, bestMove) ==
    IF i > Len(scores) THEN bestMove
    ELSE IF Better(scores[i], bestScore)
    THEN BestMove(scores, i + 1, scores[i], i)
    ELSE BestMove(scores, i + 1, bestScore, bestMove)

\* selectEngineMove: the index of the chosen move among the root's, 0 for null
selectEngineMove(g, toMove, perspective, depth) ==
    IF Len(g.kids) = 0 THEN 0
    ELSE BestMove(RootScores(g, toMove, perspective, depth), 1, 0 - Infinity, 0)

\* ------------------------------------------------ positions to evaluate
\* both kings at home and the two a-pawns: material is level and sufficient
HomeKings == <<Piece("k", "w", 7, 4), Piece("k", "b", 0, 4)>>

APawns == <<Piece("p", "w", 6, 0), Piece("p", "b", 1, 0)>>

Occupied(pieces, rank, file) ==
    \E i \in 1..Len(pieces) : pieces[i].rank = rank /\ pieces[i].file = file

Adjacent(a, b) ==
    /\ a.rank - b.rank \in {-1, 0, 1}
    /\ a.file - b.file \in {-1, 0, 1}

\* the number of legal moves chess.js reports of a position still in play
Mobilities == {1, 12}

\* one more piece of any type on any free square (no pawn on a back rank);
\* the side without it is to move, so a check it gives is a legal one
ExtraPieceBoards ==
    {[pieces |-> HomeKings \o APawns \o <<Piece(t, c, r, f)>>, toMove |-> Other(c)] :
        t \in {"p", "n", "b", "r", "q"}, c \in {"w", "b"},
        r \in {x \in 0..7 : TRUE}, f \in 0..7} \ 
    {b \in {[pieces |-> HomeKings \o APawns \o <<Piece(t, c, r, f)>>, toMove |-> Other(c)] :
                t \in {"p", "n", "b", "r", "q"}, c \in {"w", "b"}, r \in 0..7, f \in 0..7} :
        \/ Occupied(HomeKings \o APawns, b.pieces[5].rank, b.pieces[5].file)
        \/ b.pieces[5].type = "p" /\ b.pieces[5].rank \in {0, 7}}

\* one king away from home, the other at home, and it is the wanderer's move
KingWalkBoards ==
    {[pieces |-> <<Piece("k", c, r, f), HomeKings[IF c = "w" THEN 2 ELSE 1]>> \o APawns,
      toMove |-> c] :
        c \in {"w", "b"}, r \in 0..7, f \in 0..7} \ 
    {b \in {[pieces |-> <<Piece("k", c, r, f), HomeKings[IF c = "w" THEN 2 ELSE 1]>> \o APawns,
             toMove |-> c] : c \in {"w", "b"}, r \in 0..7, f \in 0..7} :
        \/ Adjacent(b.pieces[1], b.pieces[2])
        \/ Occupied(APawns, b.pieces[1].rank, b.pieces[1].file)}

\* the side to move is mated by queen and king in the corner: Kh8 against
\* Qg7 and Kf6 when black is mated, Kh1 against Qg2 and Kf3 when white is
Checkmated(side) ==
    IF side = "b"
    THEN Position("checkmate",
            <<Piece("k", "b", 0, 7), Piece("q", "w", 1, 6), Piece("k", "w", 2, 5)>>, 0, <<>>)
    ELSE Position("checkmate",
            <<Piece("k", "w", 7, 7), Piece("q", "b", 6, 6), Piece("k", "b", 5, 5)>>, 0, <<>>)

\* the side to move is stalemated a queen down: Kh8 against Qg6 and Kf7,
\* Kh1 against Qg3 and Kf2
Stalemated(side) ==
    IF side = "b"
    THEN Position("draw",
            <<Piece("k", "b", 0, 7), Piece("q", "w", 2, 6), Piece("k", "w", 1, 5)>>, 0, <<>>)
    ELSE Position("draw",
            <<Piece("k", "w", 7, 7), Piece("q", "b", 5, 6), Piece("k", "b", 6, 5)>>, 0, <<>>)

\* a queen up with the kings and a-pawns at home
QueenUp(color) ==
    Position("no", HomeKings \o APawns
                    \o <<IF color = "w" THEN Piece("q", "w", 7, 3) ELSE Piece("q", "b", 0, 3)>>,
             12, <<>>)

\* what evaluateBoard is called with
Evaluation(g, toMove, perspective) ==
    [NoSearch EXCEPT !.op = "evaluateBoard", !.game = g, !.toMove = toMove,
                     !.perspective = perspective]

EvaluationInputs ==
    {Evaluation(Position(over, b.pieces, m, <<>>), b.toMove, perspective) :
        over \in {"no", "draw"}, b \in ExtraPieceBoards \cup KingWalkBoards,
        m \in Mobilities, perspective \in {"w", "b"}}
    \cup {Evaluation(Checkmated(side), side, perspective) :
            side \in {"w", "b"}, perspective \in {"w", "b"}}
    \cup {Evaluation(Stalemated(side), side, perspective) :
            side \in {"w", "b"}, perspective \in {"w", "b"}}

evaluateBoardCall ==
    /\ engine.op = "evaluateBoard"
    /\ ~engine.called
    /\ engine' = [engine EXCEPT
            !.called = TRUE,
            !.score = evaluateBoard(engine.game, engine.toMove, engine.perspective),
            !.bonuses = IF engine.game.over = "no"
                        THEN [i \in 1..Len(engine.game.pieces) |->
                                positional(engine.game.pieces[i])]
                        ELSE <<>>]
    /\ UNCHANGED <<matchVars, game, app, last>>

\* ------------------------------------------------------ trees to search
\* the difficulty levels of the bot
Depths == {1, 2, 3}

\* the lists of positions holding e moves in all (the moves that lead to the
\* positions counted), for e = 0, 1, ... edges, as table[e + 1]; pool[j] holds
\* the positions with j - 1 moves below them
RECURSIVE KidSeqs(_, _, _)
KidSeqs(pool, edges, table) ==
    IF Len(table) > edges THEN table
    ELSE LET e == Len(table)
         IN  KidSeqs(pool, edges,
                Append(table,
                    UNION {{<<k>> \o rest : k \in pool[j], rest \in table[e - j + 1]} :
                            j \in 1..e}))

\* the positions with `plies` half-moves of search left and `side` to move,
\* as a table by the number of moves below them, 0 to `edges`: the game is
\* over, or the search stops here, or there are moves
RECURSIVE Searched(_, _, _)
Searched(plies, edges, side) ==
    IF plies = 0
    THEN [e \in 1..(edges + 1) |->
            IF e = 1
            THEN {Checkmated(side), Stalemated(side), QueenUp("w"), QueenUp("b")}
            ELSE {}]
    ELSE IF edges = 0
    THEN <<{Checkmated(side), Stalemated(side)}>>
    ELSE LET seqs == KidSeqs(Searched(plies - 1, edges - 1, Other(side)), edges, <<{<<>>}>>)
         IN  [e \in 1..(edges + 1) |->
                IF e = 1
                THEN {Checkmated(side), Stalemated(side)}
                ELSE {Position("no", HomeKings \o APawns, Len(kids), kids) :
                        kids \in seqs[e]}]

Search(g, toMove, perspective, depth) ==
    [NoSearch EXCEPT !.op = "selectEngineMove", !.game = g, !.toMove = toMove,
                     !.perspective = perspective, !.depth = depth]

\* white is to move at the root, and the tree is as deep as the search
SearchInputs(depth) ==
    LET roots == Searched(depth, MaxEdges, "w")
    IN  {Search(g, "w", perspective, depth) :
            g \in UNION {roots[e] : e \in DOMAIN roots},
            perspective \in {"w", "b"}}

selectEngineMoveCall ==
    /\ engine.op = "selectEngineMove"
    /\ ~engine.called
    /\ engine' = [engine EXCEPT
            !.called = TRUE,
            !.move = selectEngineMove(engine.game, engine.toMove,
                                      engine.perspective, engine.depth),
            !.stood = RootSearch(engine.game, engine.toMove,
                                 engine.perspective, engine.depth).stood,
            !.left = RootSearch(engine.game, engine.toMove,
                                engine.perspective, engine.depth).chess.made]
    /\ UNCHANGED <<matchVars, game, app, last>>

\* ------------------------------------------------------------------- App
\* The App component of session Me; Peer is the session it may be matched
\* with. Its matchmaking hook is state[Me]; what its closures read is the
\* view of the last render, stateRef[Me] and app.seen.
Me == 1
Peer == 2

NoTimer == ""

NoPending == [event |-> NoCapture, halfMoveIndex |-> -1]

NoKey == <<>>

NewApp ==
    [game |-> NewGame,          \* the useChessGame hook
     seen |-> NewGame,          \* the hook as the last render saw it
     timer |-> NoTimer,         \* the pending bot reply: its botTurnColor
     cleared |-> FALSE,         \* whether the last render cleared a pending reply
     pendingCapture |-> NoPending,
     captureKeyRef |-> NoKey,
     captureNo |-> 0,           \* how many captures were made on the board
     by |-> "",                 \* who made the capture in lastCapture
     records |-> <<>>]          \* the records setPendingCapture was given

canPlay(st) == st.status \notin {"searching", "joining"}

isPracticeSession(st) == st.status \in {"idle", "inviting"}

botTurnColor(st) == IF st.playerColor = "white" THEN "b" ELSE "w"

turnColor(t) == IF t = "w" THEN "white" ELSE "black"

\* the turn memo: the second field of the position the hook holds
GameTurn(g) == ChessPosition(g.chess).turn

\* the piece the board shows on a square
PieceColor(g, sq) ==
    LET pos == ChessPosition(g.chess)
    IN  IF sq \in {pos.w, pos.wp} THEN "white"
        ELSE IF sq \in {pos.b, pos.bp} THEN "black" ELSE ""

\* the dependencies of the bot reply effect
BotDeps(st, g) == <<botTurnColor(st), st.status, st.opponentType, GameTurn(g)>>

BotDue(st, g) ==
    st.opponentType = "bot" /\ st.status = "bot" /\ GameTurn(g) = botTurnColor(st)

\* an effect that returns no cleanup: a timer once set stays set
BotTimerKept(timer, oldSt, seen, st, g) ==
    IF BotDeps(st, g) = BotDeps(oldSt, seen) THEN timer
    ELSE IF BotDue(st, g) THEN botTurnColor(st) ELSE timer

\* the bot reply effect: when a dependency changed the cleanup clears the
\* timer and the effect sets a new one if the bot is to move
BotTimer(timer, oldSt, seen, st, g) ==
    IF BotDeps(st, g) = BotDeps(oldSt, seen) THEN timer
    ELSE IF BotDue(st, g) THEN botTurnColor(st) ELSE NoTimer

\* the dependencies of the pending-capture effect
CaptureDeps(st, g) == <<canPlay(st), g.history, g.lastCapture, st.playerColor>>

captureKey(g) == <<Len(g.history), g.lastCapture.move.san, g.lastCapture.capturedBy>>

\* whether the pending-capture effect gives setPendingCapture a record
CaptureCreates(a, oldSt, st) ==
    /\ CaptureDeps(st, a.game) # CaptureDeps(oldSt, a.seen)
    /\ a.game.lastCapture # NoCapture
    /\ a.game.lastCapture.capturedBy = st.playerColor
    /\ canPlay(st)
    /\ a.captureKeyRef # captureKey(a.game)

\* whether the effect on the history's length drops the pending record
CaptureShrinks(a) ==
    /\ a.pendingCapture # NoPending
    /\ Len(a.game.history) < a.pendingCapture.halfMoveIndex

\* a render of the App and the effects it runs, in their order; oldSt is
\* the matchmaking state of the render before and st the one rendered now
Rendered(a, oldSt, st) ==
    LET creates == CaptureCreates(a, oldSt, st)
        shrinks == CaptureShrinks(a)
        made == [event |-> a.game.lastCapture, halfMoveIndex |-> Len(a.game.history)]
    IN  [a EXCEPT
            !.seen = a.game,
            !.timer = BotTimer(@, oldSt, a.seen, st, a.game),
            !.cleared = a.timer # NoTimer
                        /\ BotDeps(st, a.game) # BotDeps(oldSt, a.seen),
            !.pendingCapture = IF shrinks THEN NoPending
                               ELSE IF creates THEN made ELSE @,
            !.captureKeyRef = IF shrinks \/ a.game.history = <<>> THEN NoKey
                              ELSE IF creates THEN captureKey(a.game) ELSE @,
            !.records = IF creates
                        THEN Append(@, [no |-> a.captureNo, by |-> a.by,
                                        color |-> a.game.lastCapture.capturedBy])
                        ELSE @]

\* the hook after a call that may have moved, and who moved
Played(a, res, who) ==
    [a EXCEPT
        !.game = res.game,
        !.captureNo = IF res.ret = "true" /\ res.game.lastCapture # NoCapture
                      THEN @ + 1 ELSE @,
        !.by = IF res.ret # "true" THEN @
               ELSE IF res.game.lastCapture # NoCapture THEN who ELSE ""]

\* resetBoardState
Reset(a) == [a EXCEPT !.game = NewGame, !.by = ""]

\* ------------------------------------------------------------ specification
\* the matchmaking hooks after they mount, for the sessions ss and a channel
\* that echoes or not
Hooks(ss, echo) ==
    /\ state = [s \in Sessions |-> createInitialState]
    /\ stateRef = [s \in Sessions |-> createInitialState]
    /\ storage = <<>>
    /\ available = [s \in Sessions |-> 0]
    /\ inbox = [s \in Sessions |-> <<>>]
    /\ board = [s \in Sessions |-> <<>>]
    /\ now = 0
    /\ gen = [s \in Sessions |-> 0]
    /\ ops = 0
    /\ echoes = echo
    /\ mounted = ss
    /\ app = NewApp

Mounted(ss, echo) ==
    /\ Hooks(ss, echo)
    /\ game = NewGame
    /\ engine = NoSearch
    /\ last = Quiet

\* two sessions on the browser's channel, which never hands a sender its
\* own message
Init == Mounted({1, 2}, FALSE)

Next ==
    \/ \E s \in mounted : beginQuickMatch(s) /\ UNCHANGED app
    \/ \E s \in mounted : cancelMatchmaking(s) /\ UNCHANGED app
    \/ \E s \in mounted : startBotMatch(s) /\ UNCHANGED app
    \/ \E s \in mounted : createInvite(s) /\ UNCHANGED app
    \/ \E s \in mounted : \E m \in KnownIds : joinInvite(s, m) /\ UNCHANGED app
    \/ \E s \in mounted : \E san \in Sans : emitMove(s, san) /\ UNCHANGED app
    \/ \E s \in mounted : \E san \in Sans : handlePlayerDrop(s, san) /\ UNCHANGED app
    \/ \E s \in mounted : \E i \in 1..MaxInbox : handleMessage(s, i) /\ UNCHANGED app
    \/ \E s \in mounted : SyncStateRef(s) /\ UNCHANGED app
    \/ \E s \in mounted : syncAvailableMatches(s) /\ UNCHANGED app
    \/ Tick /\ UNCHANGED app

Spec == Init /\ [][Next]_vars

\* the same program on a channel that also hands a sender its own messages
InitEcho == Mounted({1, 2}, TRUE)

SpecEcho == InitEcho /\ [][Next]_vars

\* three sessions that only quick-match, each once from the lobby,
\* and never cancel; the channel delivers every message and React runs
\* every effect
quickMatchFromLobby(s) ==
    /\ state[s].status = "idle"
    /\ stateRef[s].status = "idle"
    /\ beginQuickMatch(s)

NextQuick ==
    \/ \E s \in mounted : quickMatchFromLobby(s) /\ UNCHANGED app
    \/ \E s \in mounted : \E i \in 1..MaxInbox : handleMessage(s, i) /\ UNCHANGED app
    \/ \E s \in mounted : SyncStateRef(s) /\ UNCHANGED app
    \/ \E s \in mounted : syncAvailableMatches(s) /\ UNCHANGED app
    \/ Tick /\ UNCHANGED app

FairQuick ==
    \A s \in Sessions :
        /\ WF_vars(\E i \in 1..MaxInbox : handleMessage(s, i) /\ UNCHANGED app)
        /\ WF_vars(SyncStateRef(s) /\ UNCHANGED app)

InitThree == Mounted(Sessions, FALSE)

SpecQuick == InitThree /\ [][NextQuick]_vars /\ FairQuick

\* three sessions around invitations: from the lobby one invites and the
\* others follow the link, and anyone may leave
InLobby(s) == state[s].status = "idle" /\ stateRef[s].status = "idle"

inviteFromLobby(s) == InLobby(s) /\ createInvite(s)

followLink(s, m) ==
    /\ InLobby(s)
    /\ \E h \in Sessions \ {s} : state[h].matchId = m /\ state[h].isHost
    /\ joinInvite(s, m)

NextThree ==
    \/ \E s \in mounted : inviteFromLobby(s) /\ UNCHANGED app
    \/ \E s \in mounted : \E m \in KnownIds : followLink(s, m) /\ UNCHANGED app
    \/ \E s \in mounted : cancelMatchmaking(s) /\ UNCHANGED app
    \/ \E s \in mounted : \E i \in 1..MaxInbox : handleMessage(s, i) /\ UNCHANGED app
    \/ \E s \in mounted : SyncStateRef(s) /\ UNCHANGED app

SpecThree == InitThree /\ [][NextThree]_vars

\* three sessions around one invitation with a game on it: one invites, the
\* others follow the link, and whoever may move drops a piece
NextRelay ==
    \/ \E s \in mounted : inviteFromLobby(s) /\ UNCHANGED app
    \/ \E s \in mounted : \E m \in KnownIds : followLink(s, m) /\ UNCHANGED app
    \/ \E s \in mounted : \E san \in Sans : handlePlayerDrop(s, san) /\ UNCHANGED app
    \/ \E s \in mounted : \E i \in 1..MaxInbox : handleMessage(s, i) /\ UNCHANGED app
    \/ \E s \in mounted : SyncStateRef(s) /\ UNCHANGED app

SpecRelay == InitThree /\ [][NextRelay]_vars

\* ---------------------------------------------------------- App handlers
AppBounds(a) == Len(a.game.chess) <= MaxAppPlies /\ a.captureNo <= MaxCaptures

\* what a step of the App did (observation only)
Acted(op, who, ret, pieceColor) ==
    [op |-> op, who |-> who, ret |-> ret, pieceColor |-> pieceColor]

\* a drop handler that lets a waiting player move
PlayerDroppedWhileWaiting(a, cur, pieceColor, from, to, outcome) ==
    LET refused == [game |-> a.game, ret |-> "false"]
        practiceMode == cur.status \in {"idle", "inviting", "searching", "joining"}
    IN  IF pieceColor = "" THEN refused
        ELSE IF ~practiceMode /\ pieceColor # cur.playerColor THEN refused
        ELSE IF ~practiceMode /\ turnColor(GameTurn(a.seen)) # cur.playerColor
        THEN refused
        ELSE Moved(a.game, DropHits(a.game, from, to), outcome)

\* handlePlayerDrop for a piece of colour pieceColor: cur and a.seen are
\* the matchStatus, playerColor and turn its closure holds
PlayerDropped(a, cur, pieceColor, from, to, outcome) ==
    LET refused == [game |-> a.game, ret |-> "false"]
        practiceMode == cur.status \in {"idle", "inviting"}
    IN  IF cur.status \in {"searching", "joining"} THEN refused
        ELSE IF pieceColor = "" THEN refused
        ELSE IF ~practiceMode /\ pieceColor # cur.playerColor THEN refused
        ELSE IF ~practiceMode /\ turnColor(GameTurn(a.seen)) # cur.playerColor
        THEN refused
        ELSE Moved(a.game, DropHits(a.game, from, to), outcome)

\* what handlePlayerDrop hands emitMove after a move
DropSent(cur, res) ==
    IF res.ret = "true" /\ cur.opponentType = "human" /\ cur.status = "matched"
    THEN EmitSent(cur, Me, res.game.chess[Len(res.game.chess)].san)
    ELSE <<>>

\* handlePlayerDrop and the render its updates bring
DropHandled(pieceColor, from, to, outcome) ==
    LET cur == stateRef[Me]
        res == PlayerDropped(app, cur, pieceColor, from, to, outcome)
        sent == DropSent(cur, res)
    IN  /\ AppBounds(Played(app, res, "local"))
        /\ CanPost(Me, sent)
        /\ inbox' = Posted(inbox, Me, sent)
        /\ app' = Rendered(Played(app, res, "local"), cur, cur)
        /\ last' = Acted("handlePlayerDrop", Me, res.ret, pieceColor)
        /\ UNCHANGED <<state, stateRef, storage, available, board, now, gen, ops,
                       echoes, mounted, game, engine>>

\* the board widget's onPieceDrop: the piece is the one the board shows
boardDrop(from, to, outcome) ==
    /\ PieceColor(app.seen, from) # ""
    /\ DropHandled(PieceColor(app.seen, from), from, to, outcome)

\* attemptBoardMove: a click on a target square after a square is selected
attemptBoardMove(from, to, outcome) ==
    LET hits == DropHits(app.game, from, to)
        legalMove == CHOOSE m \in hits : TRUE
        moveColor == turnColor(legalMove.color)
    IN  /\ hits # {}
        /\ isPracticeSession(stateRef[Me]) \/ moveColor = stateRef[Me].playerColor
        /\ DropHandled(moveColor, from, to, outcome)

\* the undo button, enabled while the rendered history is not empty;
\* tried in games against the bot
appUndoMove ==
    /\ stateRef[Me].status = "bot"
    /\ app.seen.history # <<>>
    /\ app' = Rendered([app EXCEPT !.game = Undone(@), !.by = ""],
                       stateRef[Me], stateRef[Me])
    /\ last' = Acted("undoMove", Me, "", "")
    /\ UNCHANGED <<matchVars, game, engine>>

handleCaptureCancel ==
    /\ app.pendingCapture # NoPending
    /\ app' = [app EXCEPT !.pendingCapture = NoPending]
    /\ last' = Acted("handleCaptureCancel", Me, "", "")
    /\ UNCHANGED <<matchVars, game, engine>>

\* handleNewGame, and likewise handleCancelMatch and handleBackToLobby
handleNewGame ==
    /\ state[Me].status # "idle"
    /\ cancelMatchmaking(Me)
    /\ app' = Rendered(Reset(app), stateRef[Me], state'[Me])

handleBeginQuickMatch ==
    /\ beginQuickMatch(Me)
    /\ app' = Rendered(Reset(app), stateRef[Me], state'[Me])

\* (tried while the peer is in its lobby)
handleBeginBotMatch ==
    /\ InLobby(Peer)
    /\ startBotMatch(Me)
    /\ app' = Rendered(Reset(app), stateRef[Me], state'[Me])

\* the bot reply timer goes off: selectEngineMove on the position the
\* board holds now returns one of its moves, which applyMoveBySan plays
\* (every position of the fragment has a move, so it never returns null)
botReply(mv, outcome) ==
    /\ app.timer # NoTimer
    /\ mv \in MoveSet(ChessPosition(app.game.chess))
    /\ LET res == Moved(app.game, SanHits(app.game, mv.san), outcome)
       IN  /\ AppBounds(Played(app, res, "bot"))
           /\ app' = [Played(app, res, "bot") EXCEPT !.timer = NoTimer]
           /\ last' = Acted("botReply", Me, res.ret, "")
    /\ UNCHANGED <<matchVars, game, engine>>

\* a message reaches the session: the hook's handler, and for a move it
\* accepts handleOpponentMove on the board
appHandleMessage(i, outcome) ==
    /\ handleMessage(Me, i)
    /\ LET m == inbox[Me][i].msg
           res == Moved(app.game, SanHits(app.game, m.san), outcome)
       IN  IF m.type = "move" /\ MoveAccepted(stateRef[Me], Me, m)
           THEN AppBounds(Played(app, res, "peer")) /\ app' = Played(app, res, "peer")
           ELSE app' = app

\* React renders the App after a callback that was no user event
Render ==
    /\ stateRef[Me] # state[Me] \/ app.seen # app.game
    /\ stateRef' = [stateRef EXCEPT ![Me] = state[Me]]
    /\ app' = Rendered(app, stateRef[Me], state[Me])
    /\ last' = Quiet
    /\ UNCHANGED <<state, storage, available, inbox, board, now, gen, ops, echoes,
                   mounted, game, engine>>

\* ------------------------------------------------------------- the peer
\* The peer's App keeps a board of its own. Both boards are reset when a
\* quick match begins and change only by the moves of the match, so while
\* no move is on its way the peer's board is the one app.game holds; the
\* peer then drops a piece of its colour on its turn.
MovesUnderway ==
    \E s \in {Me, Peer} : \E k \in 1..Len(inbox[s]) : inbox[s][k].msg.type = "move"

InMatch ==
    /\ state[Me].status = "matched" /\ state[Peer].status = "matched"
    /\ state[Me].matchId = state[Peer].matchId

peerDrop(mv) ==
    /\ stateRef[Peer] = state[Peer]
    /\ InMatch
    /\ ~MovesUnderway
    /\ turnColor(GameTurn(app.game)) = state[Peer].playerColor
    /\ mv \in MoveSet(ChessPosition(app.game.chess))
    /\ LET sent == EmitSent(stateRef[Peer], Peer, mv.san)
       IN  /\ CanPost(Peer, sent)
           /\ inbox' = Posted(inbox, Peer, sent)
           /\ last' = Acted("handlePlayerDrop", Peer, "true", "")
    /\ UNCHANGED <<state, stateRef, storage, available, board, now, gen, ops,
                   echoes, mounted, game, engine, app>>

\* the peer looks for a match from its lobby, while Me is not at a bot game
peerBeginQuickMatch ==
    /\ state[Me].status # "bot"
    /\ InLobby(Peer)
    /\ beginQuickMatch(Peer)
    /\ UNCHANGED app

peerCancelMatch ==
    /\ state[Peer].status # "idle"
    /\ cancelMatchmaking(Peer)
    /\ UNCHANGED app

peerHandleMessage(i) == handleMessage(Peer, i) /\ UNCHANGED app

peerRender == SyncStateRef(Peer) /\ UNCHANGED app

\* the drops tried on the boards of the App and its peer: the knights go
\* forward until white's takes black's, and white's pawn steps
AppDrops == {<<"g1", "f3">>, <<"f3", "e5">>, <<"e5", "g4">>, <<"g8", "f6">>,
             <<"f6", "g4">>, <<"a2", "a3">>}

\* the moves of those a player or the engine finds on a board
AppMoves(chess) ==
    {mv \in MoveSet(ChessPosition(chess)) : <<mv.from, mv.to>> \in AppDrops}

\* one App in bot, practice and quick matches, and its peer
InitApp == Mounted({Me, Peer}, FALSE)

NextApp ==
    \/ \E d \in AppDrops :
          \E o \in OutcomesTried(DropHits(app.game, d[1], d[2])) :
              boardDrop(d[1], d[2], o)
    \/ \E d \in AppDrops : attemptBoardMove(d[1], d[2], "null")
    \/ appUndoMove
    \/ handleCaptureCancel
    \/ handleNewGame
    \/ handleBeginQuickMatch
    \/ handleBeginBotMatch
    \/ \E mv \in AppMoves(app.game.chess) : botReply(mv, "null")
    \/ \E i \in 1..MaxInbox : \E o \in MoveOutcomes : appHandleMessage(i, o)
    \/ Render
    \/ peerBeginQuickMatch
    \/ peerCancelMatch
    \/ \E mv \in AppMoves(app.game.chess) : peerDrop(mv)
    \/ \E i \in 1..MaxInbox : peerHandleMessage(i)
    \/ peerRender

SpecApp == InitApp /\ [][NextApp]_vars

\* ------------------------------------------------------- two boards
\* One quick match with the board of each session: app.game is the board
\* hook of Me's App and game the board hook of the peer's App. Both sessions
\* begin from their lobbies, drops and undos are tried once a session shows
\* the match, and each acts on what it has rendered.
matchDrop(from, to) ==
    /\ stateRef[Me].status = "matched"
    /\ boardDrop(from, to, "null")
    /\ Len(app'.game.chess) <= MaxMatchPlies

\* the undo button during a match
matchUndoMove ==
    /\ stateRef[Me].status = "matched"
    /\ app.seen.history # <<>>
    /\ app' = Rendered([app EXCEPT !.game = Undone(@), !.by = ""],
                       stateRef[Me], stateRef[Me])
    /\ last' = Acted("undoMove", Me, "", "")
    /\ UNCHANGED <<matchVars, game, engine>>

matchBeginQuickMatch == InLobby(Me) /\ handleBeginQuickMatch

\* handlePlayerDrop in the peer's App
peerBoardDrop(from, to) ==
    /\ stateRef[Peer] = state[Peer]
    /\ stateRef[Peer].status = "matched"
    /\ PieceColor(game, from) # ""
    /\ LET cur == stateRef[Peer]
           res == PlayerDropped([game |-> game, seen |-> game], cur,
                                PieceColor(game, from), from, to, "null")
           sent == IF res.ret = "true" /\ cur.opponentType = "human"
                   THEN EmitSent(cur, Peer, res.game.chess[Len(res.game.chess)].san)
                   ELSE <<>>
       IN  /\ Len(res.game.chess) <= MaxMatchPlies
           /\ CanPost(Peer, sent)
           /\ inbox' = Posted(inbox, Peer, sent)
           /\ game' = res.game
           /\ last' = Acted("handlePlayerDrop", Peer, res.ret, PieceColor(game, from))
    /\ UNCHANGED <<state, stateRef, storage, available, board, now, gen, ops,
                   echoes, mounted, engine, app>>

peerUndoMove ==
    /\ stateRef[Peer] = state[Peer]
    /\ stateRef[Peer].status = "matched"
    /\ game.history # <<>>
    /\ game' = Undone(game)
    /\ last' = Acted("undoMove", Peer, "", "")
    /\ UNCHANGED <<matchVars, engine, app>>

\* a move message reaches the peer: the move branch of its handler and
\* handleOpponentMove on its board
peerHandleMove(i, outcome) ==
    /\ Deliverable(Peer, i)
    /\ inbox[Peer][i].msg.type = "move"
    /\ LET m == inbox[Peer][i].msg
       IN  /\ game' = IF MoveAccepted(stateRef[Peer], Peer, m)
                      THEN Moved(game, SanHits(game, m.san), outcome).game
                      ELSE game
           /\ Len(game'.chess) <= MaxMatchPlies
           /\ last' = Acted("handleMessage", Peer, "", "")
    /\ inbox' = [inbox EXCEPT ![Peer] = RemoveAt(@, i)]
    /\ UNCHANGED <<state, stateRef, storage, available, board, now, gen, ops,
                   echoes, mounted, engine, app>>

\* any other message reaches the peer
peerHandleOther(i) ==
    /\ i \in 1..Len(inbox[Peer])
    /\ inbox[Peer][i].msg.type # "move"
    /\ peerHandleMessage(i)

NextMatch ==
    \/ matchBeginQuickMatch
    \/ \E d \in AppDrops : matchDrop(d[1], d[2])
    \/ matchUndoMove
    \/ \E i \in 1..MaxInbox :
          appHandleMessage(i, "null") /\ Len(app'.game.chess) <= MaxMatchPlies
    \/ Render
    \/ peerBeginQuickMatch
    \/ \E d \in AppDrops : peerBoardDrop(d[1], d[2])
    \/ peerUndoMove
    \/ \E i \in 1..MaxInbox : peerHandleMove(i, "null")
    \/ \E i \in 1..MaxInbox : peerHandleOther(i)
    \/ peerRender

SpecMatch == InitApp /\ [][NextMatch]_vars

\* ------------------------------------------------ the stored queue as text
\* What localStorage holds under QUEUE_KEY is text: none at all, the JSON
\* of a queue, text JSON.parse rejects, or the JSON of a value that is no
\* array (pruneQueue's filter then throws).
Item(kind, entries) == [kind |-> kind, entries |-> entries]

StoredEntries == [id : Sessions, createdAt : {0, TickMs}]

StoredQueues ==
    {<<>>} \cup {<<e>> : e \in StoredEntries}
          \cup {<<e, f>> : e \in StoredEntries, f \in StoredEntries}

Items ==
    {Item("absent", <<>>), Item("unparsable", <<>>), Item("noArray", <<>>)}
        \cup {Item("queue", q) : q \in StoredQueues \ {<<>>}}

Malformed(item) == item.kind \in {"unparsable", "noArray"}

\* readQueue on the text: what it returns, what it leaves stored, whether
\* the caller sees an error and whether the console is warned
readQueueText(item, t) ==
    IF item.kind = "absent"
    THEN [ret |-> <<>>, item |-> item, threw |-> FALSE, warned |-> FALSE]
    ELSE IF Malformed(item)
    THEN [ret |-> <<>>, item |-> item, threw |-> FALSE, warned |-> TRUE]
    ELSE LET trimmed == pruneQueue(item.entries, t)
         IN  [ret |-> trimmed, item |-> Item("queue", trimmed),
              threw |-> FALSE, warned |-> FALSE]

\* one session reads whatever text the browser holds
InitStored ==
    /\ Hooks({1}, FALSE)
    /\ game = NewGame
    /\ engine = NoSearch
    /\ last = Quiet

readStored(s, item, t) ==
    /\ last.op = "none"
    /\ LET res == readQueueText(item, t)
       IN  last' = [op |-> "readQueue", who |-> s, item |-> item, now |-> t,
                    ret |-> res.ret, left |-> res.item, threw |-> res.threw,
                    warned |-> res.warned]
    /\ UNCHANGED <<matchVars, game, engine, app>>

NextStored ==
    \E s \in mounted : \E item \in Items : \E k \in 0..(MaxTicks + 1) :
        readStored(s, item, k * TickMs)

SpecStored == InitStored /\ [][NextStored]_vars

\* one board hook on its own: drops and notations of the fragment, legal
\* or not, undo and reset
InitGame ==
    /\ Hooks({}, FALSE)
    /\ game = NewGame
    /\ engine = NoSearch
    /\ last = Still

NextGame ==
    \/ \E d \in DropsTried(game) :
          \E o \in OutcomesTried(DropHits(game, d[1], d[2])) :
              handleDrop(d[1], d[2], o)
    \/ \E san \in SansTried(game) :
          \E o \in OutcomesTried(SanHits(game, san)) :
              applyMoveBySanToGame(san, o)
    \/ undoMove
    \/ resetGame

SpecGame == InitGame /\ [][NextGame]_vars

\* evaluateBoard on its own, on every board of the families above
InitEval ==
    /\ Hooks({}, FALSE)
    /\ game = NewGame
    /\ last = Quiet
    /\ engine \in EvaluationInputs

NextEval == evaluateBoardCall

SpecEval == InitEval /\ [][NextEval]_vars

\* selectEngineMove on its own, on every tree of the family above
InitEngine ==
    /\ Hooks({}, FALSE)
    /\ game = NewGame
    /\ last = Quiet
    /\ \E depth \in Depths : engine \in SearchInputs(depth)

NextEngine == selectEngineMoveCall

SpecEngine == InitEngine /\ [][NextEngine]_vars

\* ------------------------------------------------------------------ claims
\* In the claims below the status and match id a callback "finds" are the
\* ones it reads from stateRef.current (last.cur); last.prev is the React
\* state before the step and state[last.who] the one after it.

Handled(type) == last.op = "handleMessage" /\ last.msg.type = type

HasEntry(q, id) == \E k \in 1..Len(q) : q[k].id = id

\* b's quick-match has just taken a's entry from the queue
QuickJoined(a, b) ==
    /\ last.op = "beginQuickMatch" /\ last.who = b
    /\ state[a] = SearchingState(a)
    /\ state[b] = JoiningState(a, a)

QuickPaired(a, b) ==
    /\ state[a] = MatchedState(a, "white", b, TRUE)
    /\ state[b] = MatchedState(a, "black", a, FALSE)

SameColourPair ==
    \E a, b \in Sessions :
        /\ a # b
        /\ state[a].status = "matched" /\ state[b].status = "matched"
        /\ state[a].matchId = state[b].matchId
        /\ state[a].playerColor = state[b].playerColor

\* C1: when session a waits in the queue and session b's quick-match takes
\* its entry, both eventually are matched on a's match id, a as host and
\* white, b as guest and black; two sessions matched on one id never have
\* the same colour.
C1_QuickMatchPairs ==
    /\ \A a, b \in Sessions : QuickJoined(a, b) ~> QuickPaired(a, b)
    /\ [](~SameColourPair)

C1_Witness ==
    \E a, b \in Sessions :
        /\ a # b
        /\ QuickPaired(a, b)
        /\ stateRef[a] = state[a] /\ stateRef[b] = state[b]

\* C2: a session is set to matched only as a host that found itself
\* inviting or searching and received a match-join for the match id it
\* hosts, or as a guest that found itself joining and received a
\* match-confirm for the match id it asked to join; never from idle or bot.
C2_MatchedOnlyFromPending ==
    (last.op # "none" /\ last.cur.status # "matched"
        /\ state[last.who].status = "matched")
    => \/ /\ Handled("match-join")
          /\ last.cur.status \in {"inviting", "searching"}
          /\ last.cur.isHost
          /\ last.cur.matchId = last.msg.matchId
       \/ /\ Handled("match-confirm")
          /\ last.cur.status = "joining"
          /\ last.cur.matchId = last.msg.matchId

\* C3: a match-join changes the recipient's state or makes it post a
\* match-confirm only when the recipient is the host of exactly that match
\* id and is inviting or searching.
C3_JoinOnlyForPendingHost ==
    (Handled("match-join")
        /\ (state[last.who] # last.prev \/ last.sent # <<>>))
    => /\ last.cur.isHost
       /\ last.cur.matchId = last.msg.matchId
       /\ last.cur.status \in {"inviting", "searching"}

\* C4: a match-cancel for the match id the recipient is tracking resets the
\* recipient to the initial idle state, whatever its status was.
C4_CancelOfTrackedMatchResets ==
    (Handled("match-cancel")
        /\ last.cur.matchId # Null /\ last.cur.matchId = last.msg.matchId)
    => state[last.who] = createInitialState

C4_Witness ==
    /\ Handled("match-cancel")
    /\ last.cur.matchId = last.msg.matchId
    /\ last.prev.status = "matched"
    /\ state[last.who].status = "idle"

\* C5: a match-cancel for another match id, or one that arrives while the
\* recipient tracks no match, leaves every field of the recipient's state
\* (and what its callbacks read) unchanged and posts nothing.
C5_ForeignCancelIgnored ==
    (Handled("match-cancel")
        /\ (last.cur.matchId = Null \/ last.cur.matchId # last.msg.matchId))
    => /\ state[last.who] = last.prev
       /\ stateRef[last.who] = last.cur
       /\ last.sent = <<>>

C5_Witness ==
    /\ Handled("match-cancel")
    /\ last.cur.matchId # Null
    /\ last.cur.matchId # last.msg.matchId
    /\ last.prev.status # "idle"
    /\ state[last.who] = last.prev

\* C6: a message the channel hands back to its own sender changes neither
\* the sender's matchmaking state nor its board, whatever its type.
C6_OwnMessagesIgnored ==
    (last.op = "handleMessage" /\ last.from = last.who)
    => /\ state[last.who] = last.prev
       /\ board[last.who] = last.preBoard

\* C7: emitMove, called directly or by the drop handler, posts a move
\* exactly when it finds status matched, a human opponent and a match id;
\* the move carries the sender's session id and that match id; in every
\* other status nothing is posted.
C7_EmitOnlyWhenMatched ==
    (last.op \in {"emitMove", "handlePlayerDrop"})
    => /\ (last.sent # <<>>) <=>
            (last.cur.status = "matched" /\ last.cur.opponentType = "human"
                /\ last.cur.matchId # Null)
       /\ Len(last.sent) <= 1
       /\ \A k \in 1..Len(last.sent) :
            /\ last.sent[k].type = "move"
            /\ last.sent[k].senderId = last.who
            /\ last.sent[k].matchId = last.cur.matchId

C7_Witness ==
    /\ last.op = "emitMove"
    /\ last.cur.status = "matched"
    /\ Len(last.sent) = 1
    /\ last.sent[1].senderId = last.who

C7_WitnessSilent ==
    /\ last.op = "emitMove"
    /\ last.cur.status = "joining"
    /\ last.sent = <<>>

\* C8: after cancelMatchmaking the session is in the initial idle state, and
\* if it was a searching host the shared queue holds no entry with its id.
C8_CancelResets ==
    (last.op = "cancelMatchmaking")
    => /\ state[last.who] = createInitialState
       /\ stateRef[last.who] = createInitialState
       /\ (last.cur.status = "searching" /\ last.cur.isHost)
            => ~HasEntry(storage, last.who)

C8_Witness ==
    /\ last.op = "cancelMatchmaking"
    /\ last.cur.status = "searching"
    /\ last.cur.isHost
    /\ state[last.who].status = "idle"
    /\ ~HasEntry(storage, last.who)

\* C9 as claimed: cancelMatchmaking posts a match-cancel for the current
\* match id in every non-idle status, bot included, and nothing in idle.
C9_CancelBroadcastsUnlessIdle ==
    (last.op = "cancelMatchmaking")
    => IF last.cur.status = "idle"
       THEN last.sent = <<>>
       ELSE last.sent = <<MatchCancel(last.cur.matchId)>>

\* C9 as amended: cancelMatchmaking posts a match-cancel for the current
\* match id when it finds inviting, joining, searching or matched, and
\* posts nothing when it finds idle or bot.
C9_CancelBroadcastsForPeerStatuses ==
    (last.op = "cancelMatchmaking")
    => IF last.cur.status \in {"inviting", "joining", "searching", "matched"}
       THEN last.sent = <<MatchCancel(last.cur.matchId)>>
       ELSE last.sent = <<>>

C9_Witness ==
    /\ last.op = "cancelMatchmaking"
    /\ last.cur.status = "joining"
    /\ last.sent = <<MatchCancel(last.cur.matchId)>>

C9_WitnessBot ==
    /\ last.op = "cancelMatchmaking"
    /\ last.cur.status = "bot"
    /\ last.sent = <<>>

\* an identifier nothing else in the system holds
FreshFor(s, id) ==
    /\ id # Null
    /\ id \notin Sessions
    /\ id # last.cur.matchId
    /\ id # last.prev.matchId
    /\ \A r \in Sessions \ {s} : state[r].matchId # id /\ stateRef[r].matchId # id
    /\ \A r \in Sessions : \A k \in 1..Len(inbox[r]) : inbox[r][k].msg.matchId # id

C10_WitnessSearching ==
    /\ last.op = "startBotMatch"
    /\ last.cur.status = "searching"
    /\ last.preQueued
    /\ ~HasEntry(storage, last.who)

\* the entries of q that the TTL still admits at time t
Young(e, t) == t - e.createdAt < QUEUE_TTL_MS

OtherIds(q, self) == {q[k].id : k \in {j \in 1..Len(q) : q[j].id # self}}

\* C11: beginQuickMatch either finds, in the pruned queue, an entry of
\* another session, removes it, becomes joining (guest, black) on that
\* entry's id and posts a match-join for it; or it finds none, stores the
\* pruned queue with exactly one entry of its own appended in place of any
\* earlier one, and becomes searching (host, white) on its own session id,
\* posting nothing.
C11_QuickMatchJoinsOrEnqueues ==
    [][\A s \in Sessions :
        (last'.op = "beginQuickMatch" /\ last'.who = s) =>
            LET q == pruneQueue(storage, now)
                mine == [id |-> s, createdAt |-> now]
            IN  IF OtherIds(q, s) # {}
                THEN \E id \in OtherIds(q, s) :
                        /\ storage' = WithoutId(q, id)
                        /\ state'[s].status = "joining"
                        /\ state'[s].matchId = id
                        /\ state'[s].playerColor = "black"
                        /\ ~state'[s].isHost
                        /\ last'.sent = <<MatchJoin(id, s)>>
                ELSE /\ storage' = Append(WithoutId(q, s), mine)
                     /\ state'[s].status = "searching"
                     /\ state'[s].matchId = s
                     /\ state'[s].playerColor = "white"
                     /\ state'[s].isHost
                     /\ last'.sent = <<>>
      ]_vars

C11_Witness ==
    /\ last.op = "beginQuickMatch"
    /\ state[last.who].status = "joining"
    /\ ~HasEntry(storage, state[last.who].matchId)
    /\ last.sent # <<>>

C11_WitnessReplace ==
    /\ last.op = "beginQuickMatch"
    /\ last.preQueued
    /\ state[last.who].status = "searching"
    /\ Len(storage) = 1
    /\ storage[1].id = last.who

\* what a step may do to the entries the TTL admits up to the age `limit`
\* counts as young: a read leaves only young entries in storage, shows only
\* young entries of others in the count, never joins an old entry, and
\* an entry of age below `limit` leaves the queue only when the step
\* takes it by id (the caller's own entry, or the host entry it joins)
ReadRespectsTtl(keeps(_, _)) ==
    /\ last'.read =>
        \A k \in 1..Len(storage') : Young(storage'[k], now)
    /\ (last'.read /\ last'.op \in {"beginQuickMatch", "syncAvailableMatches"}) =>
        available'[last'.who] =
            Cardinality({k \in 1..Len(storage') :
                /\ Young(storage'[k], now)
                /\ storage'[k].id # last'.who})
    /\ (last'.op = "beginQuickMatch" /\ state'[last'.who].status = "joining") =>
        \E k \in 1..Len(storage) :
            /\ storage[k].id = state'[last'.who].matchId
            /\ Young(storage[k], now)
    /\ \A k \in 1..Len(storage) :
        (keeps(storage[k], now) /\ ~HasEntry(storage', storage[k].id)) =>
            /\ last'.op # "syncAvailableMatches"
            /\ \/ storage[k].id = last'.who
               \/ storage[k].id = state'[last'.who].matchId

NotOlder(e, t) == t - e.createdAt <= QUEUE_TTL_MS

C12_WitnessExpired ==
    /\ last.op = "syncAvailableMatches"
    /\ now >= QUEUE_TTL_MS
    /\ storage = <<>>
    /\ \E s \in Sessions : state[s].status = "searching"
    /\ available[last.who] = 0

\* ----------------------------------------------------- claims on the board
IsMoveOp == last.op \in {"handleDrop", "applyMoveBySan"}

\* the legal moves the last call's argument named in the position it found
Named == last.named

\* C13: when a legal move is applied and undoMove is called next, the
\* position, both capture lists and the whole repetition-count map are
\* again exactly what they were immediately before that move.
C13_UndoRestoresMove ==
    (last.op = "undoMove" /\ last.undone # NoGame)
    => /\ game.position = last.undone.position
       /\ ChessPosition(game.chess) = ChessPosition(last.undone.chess)
       /\ game.captures = last.undone.captures
       /\ game.positionCounts = last.undone.positionCounts

\* the undone move was a capture, made after earlier moves
C13_Witness ==
    /\ last.op = "undoMove"
    /\ last.undone # NoGame
    /\ Len(last.pre.chess) >= 3
    /\ last.pre.lastCapture # NoCapture
    /\ game.captures = last.undone.captures
    /\ game.captures # last.pre.captures

\* C14: a drop or a notation that names no legal move of the current
\* position returns false, raises no error, and leaves the whole game
\* session unchanged.
C14_IllegalMoveReturnsFalse ==
    (IsMoveOp /\ Named = {})
    => /\ last.ret = "false"
       /\ game = last.pre

\* C15: once the game is over, every move attempt, by drop or by notation
\* (a peer's relayed move, the bot's reply), returns false and leaves the
\* whole game session unchanged.
C15_NoMoveAfterGameOver ==
    (IsMoveOp /\ ChessIsGameOver(last.pre.chess))
    => /\ last.ret = "false"
       /\ game = last.pre

\* a move that would be legal is refused because the game is drawn
C15_Witness ==
    /\ last.op = "applyMoveBySan"
    /\ ChessIsGameOver(last.pre.chess)
    /\ Named # {}
    /\ last.ret = "false"
    /\ game = last.pre

C15_WitnessDrop ==
    /\ last.op = "handleDrop"
    /\ ChessIsGameOver(last.pre.chess)
    /\ Named # {}
    /\ last.ret = "false"

\* C16: the threefold-repetition flag of the status is true exactly when
\* the session's repetition count for the current position is at least 3.
C16_ThreefoldIffCounted ==
    status(game).isThreefoldRepetition
        <=> (CountOf(game.positionCounts, game.position) >= 3
                /\ game.repetitionCount >= 3)


\* ------------------------------------------------- claims on the evaluation
Evaluated == engine.op = "evaluateBoard" /\ engine.called

\* the white table's bonus on the square of the same file and mirrored rank
MirroredRank(square) ==
    pieceSquareTables[square.type][(7 - square.rank) * 8 + square.file + 1]

\* C19: for every piece type and every square, the positional bonus used for a
\* black piece equals the white table's bonus at the square of the same file
\* and the mirrored rank.
C19_BlackBonusMirrorsRank ==
    Evaluated /\ engine.game.over = "no" =>
        \A i \in 1..Len(engine.game.pieces) :
            engine.game.pieces[i].color = "b" =>
                engine.bonuses[i] = MirroredRank(engine.game.pieces[i])

\* C20: a checkmated position evaluates to minus infinity when the side to move
\* is the perspective side and to plus infinity otherwise, a drawn position
\* to 0 whatever material is on the board.
C20_TerminalScores ==
    Evaluated =>
        /\ engine.game.over = "checkmate" =>
                engine.score = IF engine.toMove = engine.perspective
                               THEN -Infinity ELSE Infinity
        /\ engine.game.over = "draw" => engine.score = 0

\* the material alone, seen from the perspective side
RECURSIVE Material(_, _)
Material(pieces, perspective) ==
    IF pieces = <<>> THEN 0
    ELSE (IF pieces[1].color = perspective THEN 1 ELSE -1) * pieceValues[pieces[1].type]
         + Material(Tail(pieces), perspective)

\* a drawn position a queen up was evaluated
C20_Witness ==
    /\ Evaluated
    /\ engine.game.over = "draw"
    /\ Material(engine.game.pieces, engine.perspective) = pieceValues["q"]
    /\ engine.score = 0

\* the mated side evaluated its own mate
C20_WitnessMated ==
    /\ Evaluated
    /\ engine.game.over = "checkmate"
    /\ engine.toMove = engine.perspective
    /\ engine.score = -Infinity


\* ----------------------------------------------------- claims on the search
SearchDone == engine.op = "selectEngineMove" /\ engine.called

\* the bot's call: the engine plays the side to move (App.tsx, bot effect)
BotCall == SearchDone /\ engine.perspective = engine.toMove

SearchedScores ==
    RootScores(engine.game, engine.toMove, engine.perspective, engine.depth)

\* C17: selectEngineMove returns no move only when the root has no legal move;
\* with legal moves it returns one of them at every depth, the sole move when
\* there is exactly one, even if every line from it loses within the depth.
C17_MoveWheneverLegal ==
    SearchDone =>
        /\ engine.move = 0 => engine.game.kids = <<>>
        /\ engine.game.kids # <<>> => engine.move \in 1..Len(engine.game.kids)
        /\ Len(engine.game.kids) = 1 => engine.move = 1

\* the bot has one legal move, the reply to it mates, and the search at
\* depth 2 returns null
C17_SoleMoveLost ==
    /\ BotCall
    /\ engine.depth = 2
    /\ Len(engine.game.kids) = 1
    /\ \E i \in 1..Len(engine.game.kids[1].kids) :
            engine.game.kids[1].kids[i] = Checkmated(engine.toMove)
    /\ engine.move = 0

\* the first move whose score is the greatest of the scores
FirstMax(scores) ==
    CHOOSE i \in 1..Len(scores) :
        /\ \A j \in 1..Len(scores) : scores[j] <= scores[i]
        /\ \A j \in 1..(i - 1) : scores[j] < scores[i]

\* C18: the move returned is the first, in the root's enumeration order, whose
\* searched score equals the greatest score over all root moves.
C18_FirstOfTheBest ==
    SearchDone /\ engine.game.kids # <<>> =>
        engine.move = FirstMax(SearchedScores)

\* the same, for the roots with a move that does not lose by force
C18_FirstOfTheBestUnlessLost ==
    SearchDone /\ (\E i \in 1..Len(engine.game.kids) : SearchedScores[i] > -Infinity) =>
        engine.move = FirstMax(SearchedScores)

\* two moves tie for the best score and the second of them is not the first move
C18_TieSeen ==
    /\ BotCall
    /\ Len(engine.game.kids) >= 3
    /\ engine.move = 2
    /\ SearchedScores[3] = SearchedScores[2]
    /\ SearchedScores[1] < SearchedScores[2]

\* C28: when minimax or selectEngineMove returns, the game object it
\* searched stands where it stood at entry: every move made is taken back,
\* also where alpha-beta pruning breaks out of the loop over the moves, and
\* the caller's own game session is not changed by a search.
C28_SearchRestoresObject ==
    SearchDone =>
        /\ Len(engine.stood) = Len(engine.game.kids)
        /\ \A i \in 1..Len(engine.stood) : engine.stood[i] = <<i>>
        /\ engine.left = <<>>
        /\ game = NewGame

\* a search of depth 3 that pruned: below the root's only move the first
\* reply draws at once (score 0), and the second reply's first answer is
\* already better than that for the searching side, so its second answer
\* is never tried
C28_Witness ==
    /\ SearchDone
    /\ engine.depth = 3
    /\ engine.perspective = "w"
    /\ Len(engine.game.kids) = 1
    /\ Len(engine.game.kids[1].kids) = 2
    /\ engine.game.kids[1].kids[1].over = "draw"
    /\ Len(engine.game.kids[1].kids[2].kids) = 2
    /\ engine.game.kids[1].kids[2].kids[1] = QueenUp("w")
    /\ SearchedScores = <<0>>
    /\ engine.stood = <<<<1>>>>
    /\ engine.left = <<>>

\* the move chess.js made in the last call
Made == game.chess[Len(game.chess)]

ColourName(c) == IF c = "w" THEN "white" ELSE "black"

ListOf(c) == IF c = "w" THEN "byWhite" ELSE "byBlack"

\* C23: after every move that is applied, the last-capture slot is filled
\* exactly when that move captured, and then holds that move and the
\* colour of the side that moved; the captured piece's type is appended to
\* the capturing side's list and no other list changes.
C23_LastCaptureFollowsMove ==
    (IsMoveOp /\ last.ret = "true")
    => /\ Made \in last.named
       /\ (game.lastCapture # NoCapture) <=> (Made.captured # "")
       /\ Made.captured # "" =>
            /\ game.lastCapture.move = Made
            /\ game.lastCapture.capturedBy = ColourName(Made.color)
            /\ game.captures[ListOf(Made.color)] =
                    Append(last.pre.captures[ListOf(Made.color)], Made.captured)
            /\ game.captures[ListOf(Other(Made.color))] =
                    last.pre.captures[ListOf(Other(Made.color))]
       /\ Made.captured = "" => game.captures = last.pre.captures

\* black has taken the white knight
C23_Witness ==
    /\ IsMoveOp
    /\ last.ret = "true"
    /\ Made.captured # ""
    /\ Made.color = "b"
    /\ game.lastCapture.capturedBy = "black"
    /\ game.captures.byBlack = <<"n">>

\* a quiet move followed a capture and emptied the slot
C23_WitnessCleared ==
    /\ IsMoveOp
    /\ last.ret = "true"
    /\ last.pre.lastCapture # NoCapture
    /\ Made.captured = ""
    /\ game.lastCapture = NoCapture
    /\ game.captures.byWhite = <<"n">>

\* C24: after resetGame, whatever the session was, the board is the
\* starting position, the history and both capture lists are empty, the
\* last-move squares and the last capture are null, and the repetition map
\* holds the starting position alone, with count 1.
C24_ResetGameRestoresStart ==
    last.op = "resetGame"
    => /\ game.chess = <<>>
       /\ ChessPosition(game.chess) = StartPos
       /\ game.position = ChessFen(StartPos)
       /\ game.history = <<>>
       /\ game.captures.byWhite = <<>>
       /\ game.captures.byBlack = <<>>
       /\ game.lastMoveSquares = NoSquares
       /\ game.lastCapture = NoCapture
       /\ DOMAIN game.positionCounts = {ChessFen(StartPos)}
       /\ game.positionCounts[ChessFen(StartPos)] = 1
       /\ game.repetitionCount = 1

\* the session reset had a capture on the board and a position met twice
C24_Witness ==
    /\ last.op = "resetGame"
    /\ last.pre.lastCapture # NoCapture
    /\ Len(last.pre.history) >= 5
    /\ last.pre.captures # initialCaptures
    /\ Cardinality(DOMAIN last.pre.positionCounts) >= 5
    /\ game = NewGame

\* ------------------------------------------- claims on three sessions
HandledConfirm == last.op = "handleMessage" /\ last.msg.type = "match-confirm"

\* C27: a match-confirm whose guestId is not the recipient's id leaves the
\* recipient's state as it was; one addressed to the recipient sets it to
\* matched, colour black, not host, with the message's hostId as opponent.
C27_ConfirmOnlyForGuest ==
    HandledConfirm
    => IF last.msg.guestId # last.who
       THEN /\ state[last.who] = last.prev
            /\ last.sent = <<>>
       ELSE state[last.who] =
                [matchId |-> last.msg.matchId, status |-> "matched",
                 playerColor |-> "black", opponentType |-> "human",
                 opponentId |-> last.msg.hostId, isHost |-> FALSE]

\* a third session, itself waiting to join that host, hears the confirm the
\* host sent to another guest
C27_Witness ==
    /\ HandledConfirm
    /\ last.msg.guestId # last.who
    /\ last.prev.status = "joining"
    /\ last.prev.matchId = last.msg.matchId
    /\ state[last.who] = last.prev

\* the guest hears its own confirm
C27_WitnessGuest ==
    /\ HandledConfirm
    /\ last.msg.guestId = last.who
    /\ last.prev.status = "joining"
    /\ state[last.who].status = "matched"
    /\ state[last.who].opponentId = last.from

IsGuestOf(g, h) ==
    /\ state[g].status = "matched"
    /\ state[g].opponentType = "human"
    /\ ~state[g].isHost
    /\ state[g].opponentId = h

\* the host sends a confirm while its state is already matched
ConfirmsAgain ==
    /\ last'.op = "handleMessage"
    /\ last'.sent # <<>>
    /\ last'.sent[1].type = "match-confirm"
    /\ state[last'.who].status = "matched"
    /\ state[last'.who].matchId = last'.sent[1].matchId

\* C29: a host sends at most one match-confirm per hosted match id and ends
\* matched with exactly the guest it confirmed, also when two match-joins
\* reach it back to back, before stateRef shows the first transition; no
\* two guests are ever matched against the same host.
C29_HostConfirmsOneGuest ==
    /\ [][~ConfirmsAgain]_vars
    /\ [](\A g \in Sessions : \A h \in Sessions :
            (IsGuestOf(g, h) /\ state[h].status = "matched" /\ state[h].isHost
                /\ state[h].matchId = state[g].matchId)
            => state[h].opponentId = g)
    /\ [](\A g1 \in Sessions : \A g2 \in Sessions : \A h \in Sessions :
            (IsGuestOf(g1, h) /\ IsGuestOf(g2, h)
                /\ state[g1].matchId = state[g2].matchId)
            => g1 = g2)

\* session p and its opponent are matched with each other on one match id
Mutual(p) ==
    /\ state[p].status = "matched"
    /\ state[p].opponentType = "human"
    /\ state[p].opponentId \in Sessions
    /\ LET q == state[p].opponentId
       IN  /\ state[q].status = "matched"
           /\ state[q].matchId = state[p].matchId
           /\ state[q].opponentId = p
           /\ state[q].isHost # state[p].isHost

LeavesMatch(p) ==
    state'[p].status # "matched" \/ state'[p].matchId # state[p].matchId

OwnOps == {"cancelMatchmaking", "startBotMatch", "createInvite", "joinInvite",
           "beginQuickMatch"}

\* C30: once host and guest are both matched on a match id, either leaves
\* the match only by an operation of its own (a cancellation or a change of
\* mode) or by handling a match-cancel that the other participant sent; a
\* third session that tried to join the same id cannot end their match.
C30_OnlyParticipantsEndMatch ==
    [][\A p \in Sessions :
          (Mutual(p) /\ LeavesMatch(p))
          => /\ last'.who = p
             /\ \/ last'.op \in OwnOps
                \/ /\ last'.op = "handleMessage"
                   /\ last'.msg.type = "match-cancel"
                   /\ last'.from = state[p].opponentId]_vars

\* ------------------------------------------------- claims on stored text
\* C25: malformed persisted state, a shared-queue value that cannot be
\* parsed, is reported to the caller as an error and is not swallowed:
\* reading it does not quietly yield an empty queue.
C25_MalformedQueueReported ==
    (last.op = "readQueue" /\ Malformed(last.item))
    => /\ last.threw
       /\ ~(last.ret = <<>> /\ ~last.threw)

\* ------------------------------------------------------------ App claims
LocalDrop == last.op = "handlePlayerDrop" /\ last.who = Me

\* C21: while the status the handler sees is matched or bot, a local drop
\* is applied only if the dropped piece's colour is the player's colour and
\* that colour is the side to move, on the board shown and on the board
\* held; while it is searching or joining every local drop is rejected and
\* the board stays as it was.
C21_DropOnlyOnOwnTurn ==
    [][LocalDrop' =>
        LET cur == stateRef[Me]
        IN  /\ cur.status \in {"matched", "bot"} /\ last'.ret = "true" =>
                    /\ last'.pieceColor = cur.playerColor
                    /\ turnColor(GameTurn(app.seen)) = cur.playerColor
                    /\ turnColor(GameTurn(app.game)) = cur.playerColor
            /\ cur.status \in {"searching", "joining"} =>
                    /\ last'.ret = "false"
                    /\ app'.game = app.game]_vars

C21_Witness ==
    /\ LocalDrop /\ last.ret = "true"
    /\ stateRef[Me].status = "matched" /\ stateRef[Me].playerColor = "black"

C21_WitnessBot == LocalDrop /\ last.ret = "true" /\ stateRef[Me].status = "bot"

C21_WitnessSearching ==
    LocalDrop /\ last.ret = "false" /\ stateRef[Me].status = "searching"

C21_WitnessJoining ==
    LocalDrop /\ last.ret = "false" /\ stateRef[Me].status = "joining"

\* in a match, a drop of the peer's piece or out of turn is refused
C21_WitnessRefused ==
    /\ LocalDrop /\ last.ret = "false" /\ stateRef[Me].status = "matched"
    /\ last.pieceColor = stateRef[Me].playerColor

BotReplied == last.op = "botReply" /\ last.ret = "true"

\* the move made last on the board
Moving(a) == a.game.chess[Len(a.game.chess)]

LeftBotGame ==
    /\ last.op \in {"cancelMatchmaking", "beginQuickMatch"}
    /\ last.who = Me

\* C26: a bot reply is pending only while the status rendered is bot and
\* the bot's colour is to move, so once the user cancels, starts a new game
\* or leaves bot mode the pending reply is gone; and a bot move is applied
\* only when, as the timer goes off, that status is bot and the side to
\* move is the bot's colour.
C26_PendingReplyOnlyInBotTurn ==
    /\ [][/\ LeftBotGame' => app'.timer = NoTimer
          /\ BotReplied' =>
                /\ stateRef[Me].status = "bot"
                /\ GameTurn(app.game) = botTurnColor(stateRef[Me])
                /\ Moving(app').color = botTurnColor(stateRef[Me])]_vars
    /\ [](app.timer # NoTimer =>
            /\ stateRef[Me].status = "bot"
            /\ app.timer = botTurnColor(stateRef[Me])
            /\ GameTurn(app.game) = app.timer)

\* the user left a bot game while the reply was pending
C26_Witness == LeftBotGame /\ last.cur.status = "bot" /\ app.cleared

C26_WitnessReply == BotReplied /\ app.game.lastCapture = NoCapture

\* the user took a move back while the reply was pending
C26_WitnessUndo == last.op = "undoMove" /\ app.cleared

Records == {app.records[k] : k \in 1..Len(app.records)}

\* nothing waits for a render
RenderedAll == stateRef[Me] = state[Me] /\ app.seen = app.game

NoForeignRecord == \A r \in Records : r.by = "local"

OneRecordEach ==
    \A j, k \in 1..Len(app.records) :
        app.records[j].no = app.records[k].no => j = k

\* (app.by: who made the capture lastCapture holds; app.captureNo: its
\* number among the captures made on the board)
EveryLocalCaptureRecorded ==
    /\ RenderedAll
    /\ app.game.lastCapture # NoCapture
    /\ app.by = "local"
    /\ app.game.lastCapture.capturedBy = state[Me].playerColor
    => \E r \in Records : r.no = app.captureNo

\* C22: a record is created for every capture made by the local player's
\* colour and for no capture made by the bot or by the peer, and a capture
\* creates at most one record.
C22_RecordPerLocalCapture ==
    NoForeignRecord /\ OneRecordEach /\ EveryLocalCaptureRecorded

\* ------------------------------------------------- matchmaking invariants
\* C34: in every state of every session's hook, set or rendered, the status
\* is idle exactly when the match id is null.
C34_IdleIffNoMatchId ==
    \A s \in mounted :
        /\ state[s].status = "idle" <=> state[s].matchId = Null
        /\ stateRef[s].status = "idle" <=> stateRef[s].matchId = Null

\* every status with its match id was reached
C34_Witness ==
    /\ state[1].status = "matched" /\ state[1].matchId # Null
    /\ state[2].status = "idle" /\ state[2].matchId = Null
    /\ last.op = "cancelMatchmaking" /\ last.who = 2

C34_WitnessBot == \E s \in mounted : state[s].status = "bot" /\ state[s].matchId # Null

C34_WitnessJoining ==
    \E s \in mounted : state[s].status = "joining" /\ state[s].matchId # Null

C34_WitnessInviting ==
    \E s \in mounted : state[s].status = "inviting" /\ state[s].matchId # Null

RoleAndColour(st) ==
    /\ st.status \in {"inviting", "searching"} => st.isHost /\ st.playerColor = "white"
    /\ st.status = "joining" => ~st.isHost /\ st.playerColor = "black"
    /\ st.status = "matched" =>
            /\ st.playerColor = "white" <=> st.isHost
            /\ st.opponentType = "human"
    /\ st.status = "bot" => st.playerColor = "white" /\ st.opponentType = "bot"

\* C35: in every state of every session's hook role and colour agree:
\* inviting and searching are host and white, joining is guest and black,
\* matched is white exactly when host and against a human, bot is white
\* against the bot.
C35_RoleAndColourAgree ==
    \A s \in mounted : RoleAndColour(state[s]) /\ RoleAndColour(stateRef[s])

C35_Witness ==
    \E h, g \in mounted :
        /\ state[h].status = "matched" /\ state[h].isHost
        /\ state[g].status = "matched" /\ ~state[g].isHost
        /\ state[g].playerColor = "black" /\ state[h].matchId = state[g].matchId

C35_WitnessBot == \E s \in mounted : state[s].status = "bot" /\ last.op = "startBotMatch"

\* what another session reads from the shared queue now
QueueRead == readQueue(storage, now)

Discoverable(s) == \E k \in 1..Len(QueueRead) : QueueRead[k].id = s

JoinUnderway(s) ==
    \E r \in Sessions : \E k \in 1..Len(inbox[r]) :
        inbox[r][k].msg.type = "match-join" /\ inbox[r][k].msg.matchId = s

\* C33: in every state a session whose status is searching has an entry
\* with its id in the queue another session reads.
C33_SearchingIsDiscoverable ==
    \A s \in mounted : state[s].status = "searching" => Discoverable(s)

\* the same while no join for the session is on its way
C33_SearchingIsDiscoverableAtRest ==
    \A s \in mounted :
        state[s].status = "searching" /\ ~JoinUnderway(s) => Discoverable(s)

\* ------------------------------------------------- board hook invariants
\* the pieces the moves of one colour captured, in the order of the moves
RECURSIVE CapturedIn(_, _)
CapturedIn(moves, c) ==
    IF moves = <<>> THEN <<>>
    ELSE LET mv == moves[Len(moves)]
             before == CapturedIn(ButLast(moves), c)
         IN  IF mv.color = c /\ mv.captured # "" THEN Append(before, mv.captured)
             ELSE before

C36_WitnessUndone ==
    /\ last.op = "undoMove"
    /\ last.pre.captures.byBlack = <<"n">>
    /\ game.captures = initialCaptures

\* C37: after any moves, undos and resets the last-move squares are null
\* exactly when the history is empty and otherwise are the origin and the
\* destination of the last move of the history; undoMove on an empty
\* history changes nothing.
C37_LastMoveSquaresFollowHistory ==
    /\ game.lastMoveSquares = NoSquares <=> game.history = <<>>
    /\ game.history # <<>> =>
            game.lastMoveSquares = [from |-> Made.from, to |-> Made.to]
    /\ last.op = "undoMove" /\ last.pre.history = <<>> => game = last.pre

\* an undo brought back the squares of the move before
C37_Witness ==
    /\ last.op = "undoMove"
    /\ Len(last.pre.history) >= 2
    /\ game.lastMoveSquares = [from |-> Made.from, to |-> Made.to]
    /\ game.lastMoveSquares # last.pre.lastMoveSquares

C37_WitnessEmpty == last.op = "undoMove" /\ last.pre.history = <<>>

\* ------------------------------------------------ the search and pruning
\* depth-limited minimax that tries every move: the score of position g
\* with `toMove` to move
RECURSIVE PlainMinimax(_, _, _, _, _)
RECURSIVE PlainOver(_, _, _, _, _, _, _)
PlainOver(g, toMove, depth, maximizing, perspective, i, value) ==
    IF i > Len(g.kids) THEN value
    ELSE LET below == PlainMinimax(g.kids[i], Other(toMove), depth - 1,
                                   ~maximizing, perspective)
         IN  PlainOver(g, toMove, depth, maximizing, perspective, i + 1,
                       IF maximizing THEN Max(value, below) ELSE Min(value, below))

PlainMinimax(g, toMove, depth, maximizing, perspective) ==
    IF depth = 0 \/ g.over # "no" THEN evaluateBoard(g, toMove, perspective)
    ELSE PlainOver(g, toMove, depth, maximizing, perspective, 1,
                   IF maximizing THEN 0 - Infinity ELSE Infinity)

\* the scores an unpruned search finds for the moves of the root
PlainScores ==
    [i \in 1..Len(engine.game.kids) |->
        PlainMinimax(engine.game.kids[i], Other(engine.toMove), engine.depth - 1,
                     FALSE, engine.perspective)]

\* minimax called on the root itself with the full window
FullWindow(maximizing) ==
    minimax(Searching(engine.game, engine.toMove), engine.depth,
            0 - Infinity, Infinity, maximizing, engine.perspective).value

\* C38: for every position and depth the score minimax with alpha-beta
\* pruning returns for the full window (minus infinity, plus infinity) is
\* the score of plain depth-limited minimax without pruning, so
\* selectEngineMove chooses the move an unpruned search chooses.
C38_PruningKeepsScore ==
    SearchDone =>
        /\ SearchedScores = PlainScores
        /\ \A maximizing \in BOOLEAN :
                FullWindow(maximizing) =
                    PlainMinimax(engine.game, engine.toMove, engine.depth,
                                 maximizing, engine.perspective)
        /\ engine.move = IF engine.game.kids = <<>> THEN 0
                         ELSE BestMove(PlainScores, 1, 0 - Infinity, 0)

\* a search of depth 3 that pruned: below the root's move the first reply
\* draws (score 0) and the second reply's first answer already scores above
\* 0, so its second answer, which scores below 0, is never searched; the
\* move scores 0 all the same
C38_Witness ==
    /\ SearchDone
    /\ engine.depth = 3
    /\ engine.perspective = "w"
    /\ Len(engine.game.kids[1].kids) = 2
    /\ engine.game.kids[1].kids[1].over = "draw"
    /\ engine.game.kids[1].kids[2].kids = <<QueenUp("w"), QueenUp("b")>>
    /\ SearchedScores = <<0>>
    /\ engine.move = 1

\* a search of depth 2 that pruned and chose between two moves: the first
\* reply to the first move mates, so the second reply is never searched,
\* and the second move, which draws, is chosen
C38_WitnessChoice ==
    /\ SearchDone
    /\ engine.depth = 2
    /\ engine.perspective = "w"
    /\ Len(engine.game.kids) = 2
    /\ engine.game.kids[1].kids = <<Checkmated("w"), QueenUp("w")>>
    /\ SearchedScores = <<0 - Infinity, 0>>
    /\ engine.move = 2

\* ---------------------------------------------------------- relayed moves
\* a move message was handled and changed the board of the session
MoveApplied ==
    /\ last.op = "handleMessage"
    /\ last.msg.type = "move"
    /\ board[last.who] # last.preBoard

\* C31: a session applies a relayed move message to its board only while
\* its own status is matched; an idle, inviting, searching, joining or bot
\* session never has its board changed by a move message, even one that
\* carries the match id it tracks.  The status is the one the handler
\* reads (stateRef.current) or the one last set, whichever is matched.
C31_MoveAppliedOnlyWhenMatched ==
    MoveApplied => last.cur.status = "matched" \/ last.prev.status = "matched"

\* the same on the status the handler reads alone
C31_MoveAppliedOnlyWhenRead ==
    MoveApplied => last.cur.status = "matched"

\* a session that followed the link after the match was made is still
\* joining, and the host's move is on its board
C31_JoinerFollowsGame ==
    /\ MoveApplied
    /\ last.cur.status = "joining" /\ last.prev.status = "joining"
    /\ state[last.from].status = "matched"
    /\ state[last.from].opponentId # last.who

\* ----------------------------------------------------- the two boards
\* both sessions are in the match and show it
BothMatched ==
    /\ InMatch
    /\ stateRef[Me] = state[Me] /\ stateRef[Peer] = state[Peer]

\* C32: whenever two sessions are matched on the same match id and no move
\* message between them is in flight, their boards hold the same position
\* and the same move history, after any moves on one's own turn and undos.
C32_MatchedBoardsAgree ==
    BothMatched /\ ~MovesUnderway =>
        /\ app.game.position = game.position
        /\ app.game.history = game.history

====
